---- MODULE Spec2Model ----
(***************************************************************************)
(* Model of the ESPN MMA scraping pipeline: the incremental merge store    *)
(* (ESPNDataProcessor and the V2 ESPNEnhancedScraper, which share one data *)
(* folder), the embedded-object locator of the A1 extractors, the record   *)
(* mappers, the A1 batch run and the store of fighter pages.               *)
(***************************************************************************)
EXTENDS Integers, Sequences, FiniteSets, TLC

VARIABLES
    fam,      \* the table family this behaviour exercises
    pc,       \* "new" before ESPNDataProcessor.__init__, "ready" after it
    mem,      \* the processor's DataFrame attributes
    disk,     \* the CSV file of each table family in the data folder
    backup,   \* the latest fighter_profiles_backup_<timestamp>.csv written
    op,       \* the last operation: its name, family, new_df and existing_df
    ret,      \* the DataFrame the last operation's _upsert_data returned
    nops,     \* operations performed so far
    html,     \* the page text handed to _extract_json_from_html
    loc,      \* the outcome of the last _extract_json_from_html call
    json_data,  \* the parsed tree handed to a record mapper
    profile,    \* what the mappers made of json_data
    batch,      \* a process_all_fighters run: its list, position and rows
    folder,     \* the FighterHTMLs folder: file stem -> page content
    html_ret,   \* the last call of upsert_html_files and what it returned
    scraper,    \* ESPNFighterScraper: the clock and the rate limiter's fields
    request,    \* the _make_request call under way or last made
    scrape,     \* a scrape_fighters_batch run and the records made of it
    saved       \* the last save_data call: the files before it, its backup

storeVars == <<fam, pc, mem, disk, backup, op, ret, nops>>
locVars == <<html, loc>>
mapVars == <<json_data, profile>>
pageVars == <<folder, html_ret>>
scraperVars == <<scraper, request, scrape>>
vars == <<fam, pc, mem, disk, backup, op, ret, nops, html, loc, json_data, profile,
          batch, folder, html_ret, scraper, request, scrape, saved>>

----------------------------------------------------------------------------
(* Bounds of the model *)

MaxOps == 1          \* operations per behaviour after construction
MaxIncoming == 2     \* rows of an incoming table
MaxBody == 4         \* characters of a page after the start pattern's key

----------------------------------------------------------------------------
(* DataFrames *)

\* A missing cell.
NaN == "NaN"

\* The strings pandas.read_csv turns into a missing cell.
NAStrings == {"", "N/A", "NA", "NaN", "null"}

\* pd.DataFrame(): no columns, no rows.
EmptyDF == [cols |-> {}, rows |-> <<>>]

Cell(r, c) == IF c \in DOMAIN r THEN r[c] ELSE NaN

Fill(r, cols) == [c \in cols |-> Cell(r, c)]

RECURSIVE ColsOf(_)
ColsOf(dicts) ==
    IF dicts = <<>> THEN {} ELSE (DOMAIN Head(dicts)) \cup ColsOf(Tail(dicts))

\* pd.DataFrame(list of dicts): the columns are the union of the dicts' keys
\* and a dict that lacks a column gets a missing cell there.
DataFrame(dicts) ==
    LET cs == ColsOf(dicts)
    IN  [cols |-> cs, rows |-> [i \in 1..Len(dicts) |-> Fill(dicts[i], cs)]]

\* DataFrame.empty: true when either axis has length zero.
IsEmpty(df) == Len(df.rows) = 0 \/ df.cols = {}

\* pd.concat([a, b], ignore_index=True)
Concat(a, b) ==
    LET cs == a.cols \cup b.cols
        rs == a.rows \o b.rows
    IN  [cols |-> cs, rows |-> [i \in 1..Len(rs) |-> Fill(rs[i], cs)]]

\* The tuple of a row's cells in the subset columns.
KeyOf(r, key) == [i \in 1..Len(key) |-> Cell(r, key[i])]

KeySet(key) == {key[i] : i \in 1..Len(key)}

RECURSIVE DropFirst(_, _, _)
DropFirst(rows, key, seen) ==
    IF rows = <<>> THEN <<>>
    ELSE LET k == KeyOf(Head(rows), key)
         IN  IF k \in seen
             THEN DropFirst(Tail(rows), key, seen)
             ELSE <<Head(rows)>> \o DropFirst(Tail(rows), key, seen \cup {k})

RECURSIVE DropLast(_, _)
DropLast(rows, key) ==
    IF rows = <<>> THEN <<>>
    ELSE LET k == KeyOf(Head(rows), key)
             later == {KeyOf(Tail(rows)[i], key) : i \in 1..(Len(rows) - 1)}
         IN  IF k \in later
             THEN DropLast(Tail(rows), key)
             ELSE <<Head(rows)>> \o DropLast(Tail(rows), key)

\* DataFrame.drop_duplicates(subset=key, keep=...): a KeyError when a subset
\* column is not a column of the frame; missing cells compare equal.
KeyErrorIn(df, key) == ~(KeySet(key) \subseteq df.cols)

\* drop_duplicates(subset=key, keep='last') where keep='first' is meant.
DropDuplicatesLastWins(df, key) ==
    [cols |-> df.cols, rows |-> DropLast(df.rows, key)]

DropDuplicatesKeepFirst(df, key) ==
    [cols |-> df.cols, rows |-> DropFirst(df.rows, key, {})]

DropDuplicatesKeepLast(df, key) ==
    [cols |-> df.cols, rows |-> DropLast(df.rows, key)]

----------------------------------------------------------------------------
(* CSV files *)

Absent == [exists |-> FALSE, readable |-> FALSE, table |-> EmptyDF]

\* DataFrame.to_csv(path, index=False)
ToCsv(df) == [exists |-> TRUE, readable |-> TRUE, table |-> df]

ReadCell(v) == IF v \in NAStrings THEN NaN ELSE v

ParsedCsv(file) ==
    [cols |-> file.table.cols,
     rows |-> [i \in 1..Len(file.table.rows) |->
                 [c \in file.table.cols |-> ReadCell(file.table.rows[i][c])]]]

\* pd.read_csv(path): the set of its possible outcomes, ReadError when the
\* file cannot be read or parsed. A file
\* written from a frame without columns holds no header: depending on the
\* pandas version reading it raises EmptyDataError or yields an empty frame.
ReadError == [ok |-> FALSE, df |-> EmptyDF]

ReadCsv(file) ==
    IF ~file.readable THEN {ReadError}
    ELSE IF file.table.cols = {} THEN {ReadError, [ok |-> TRUE, df |-> EmptyDF]}
    ELSE {[ok |-> TRUE, df |-> ParsedCsv(file)]}

----------------------------------------------------------------------------
(* Table families *)

Families == {"clinch", "ground", "striking", "profiles"}

FightFamilies == {"clinch", "ground", "striking"}

LoadOrder == <<"clinch", "ground", "striking", "profiles">>

Attrs == {"clinch_data", "ground_data", "striking_data", "fighter_profiles",
          "profiles_data"}

\* The attribute _load_existing_data, save_data and get_data_summary use.
LoadAttr(f) == IF f = "profiles" THEN "fighter_profiles" ELSE f \o "_data"

\* The attribute _upsert_data reads and writes: f"{data_type}_data". An
\* attribute never set reads as the getattr default, an empty frame.
UpsertAttr(f) == f \o "_data"

CompositeKey(f) ==
    IF f \in FightFamilies THEN <<"Player", "Date", "Opponent">> ELSE <<"Name">>

V2CompositeKey(f) ==
    IF f \in FightFamilies THEN <<"Player", "Date", "Opponent", "Event">>
    ELSE <<"Name">>

----------------------------------------------------------------------------
(* The embedded-object locator: _extract_json_from_html *)

\* The text '"prtlCmnApiRsp":' the start pattern begins with, the root key
\* written as the one letter k.
KeyLiteral == <<"\"", "k", "\"", ":">>

\* \s of the start pattern, and the whitespace json.loads skips.
Whitespace == {" ", "\n"}

RECURSIVE SkipWs(_, _)
SkipWs(text, i) ==
    IF i <= Len(text) /\ text[i] \in Whitespace THEN SkipWs(text, i + 1) ELSE i

\* Where a match of r'"prtlCmnApiRsp":\s*{' that starts at p ends (the
\* position of its brace), 0 when the pattern does not match at p.
MatchBrace(text, p) ==
    IF p + 3 <= Len(text) /\ SubSeq(text, p, p + 3) = KeyLiteral
    THEN LET j == SkipWs(text, p + 4)
         IN  IF j <= Len(text) /\ text[j] = "{" THEN j ELSE 0
    ELSE 0

\* re.search: the leftmost match; start_pos = start_match.end() - 1.
StartPos(text) ==
    LET hits == {p \in 1..Len(text) : MatchBrace(text, p) # 0}
    IN  IF hits = {} THEN 0
        ELSE MatchBrace(text, CHOOSE p \in hits : \A q \in hits : p <= q)

RECURSIVE ScanFrom(_, _, _, _, _)
\* The for loop over html_content[start_pos:], from position i on: the final
\* brace_count and end_pos (one past the closing brace, 0 when never set).
ScanFrom(text, i, brace_count, in_string, escape_next) ==
    IF i > Len(text) THEN [brace_count |-> brace_count, end_pos |-> 0]
    ELSE LET char == text[i]
         IN  IF escape_next
             THEN ScanFrom(text, i + 1, brace_count, in_string, FALSE)
             ELSE IF char = "\\"
             THEN ScanFrom(text, i + 1, brace_count, in_string, TRUE)
             ELSE IF char = "\""
             THEN ScanFrom(text, i + 1, brace_count, ~in_string, FALSE)
             ELSE IF ~in_string /\ char = "{"
             THEN ScanFrom(text, i + 1, brace_count + 1, in_string, FALSE)
             ELSE IF ~in_string /\ char = "}"
             THEN IF brace_count - 1 = 0
                  THEN [brace_count |-> 0, end_pos |-> i + 1]
                  ELSE ScanFrom(text, i + 1, brace_count - 1, in_string, FALSE)
             ELSE ScanFrom(text, i + 1, brace_count, in_string, FALSE)

FirstNewline(s, from) ==
    LET nl == {n \in from..Len(s) : s[n] = "\n"}
    IN  IF nl = {} THEN 0 ELSE CHOOSE n \in nl : \A m \in nl : n <= m

RECURSIVE StripComments(_)
\* re.sub(r'//.*?\n', '\n', json_str)
StripComments(s) ==
    IF s = <<>> THEN <<>>
    ELSE IF Len(s) >= 2 /\ s[1] = "/" /\ s[2] = "/" /\ FirstNewline(s, 3) # 0
    THEN <<"\n">> \o StripComments(SubSeq(s, FirstNewline(s, 3) + 1, Len(s)))
    ELSE <<Head(s)>> \o StripComments(Tail(s))

RECURSIVE StripTrailingCommas(_)
\* re.sub(r',\s*}', '}', json_str)
StripTrailingCommas(s) ==
    IF s = <<>> THEN <<>>
    ELSE IF s[1] = "," /\ SkipWs(s, 2) <= Len(s) /\ s[SkipWs(s, 2)] = "}"
    THEN <<"}">> \o StripTrailingCommas(SubSeq(s, SkipWs(s, 2) + 1, Len(s)))
    ELSE <<Head(s)>> \o StripTrailingCommas(Tail(s))

Digits == {"1"}

\* The characters json accepts after a backslash inside a string.
Escapable == {"\"", "\\", "/"}

RECURSIVE JString(_, _), JDigits(_, _), JValue(_, _), JMembers(_, _), JElements(_, _)

\* json.loads as a recogniser: each operator returns the position after the
\* construct that starts at i, 0 where the decoder raises JSONDecodeError.
\* JString: i is the position after the opening quote.
JString(s, i) ==
    IF i > Len(s) THEN 0
    ELSE IF s[i] = "\"" THEN i + 1
    ELSE IF s[i] = "\\"
    THEN IF i + 1 <= Len(s) /\ s[i + 1] \in Escapable THEN JString(s, i + 2) ELSE 0
    ELSE IF s[i] = "\n" THEN 0
    ELSE JString(s, i + 1)

JDigits(s, i) == IF i <= Len(s) /\ s[i] \in Digits THEN JDigits(s, i + 1) ELSE i

JValue(s, i) ==
    IF i > Len(s) THEN 0
    ELSE IF s[i] = "\"" THEN JString(s, i + 1)
    ELSE IF s[i] \in Digits THEN JDigits(s, i)
    ELSE IF s[i] = "{"
    THEN LET j == SkipWs(s, i + 1)
         IN  IF j <= Len(s) /\ s[j] = "}" THEN j + 1 ELSE JMembers(s, j)
    ELSE IF s[i] = "["
    THEN LET j == SkipWs(s, i + 1)
         IN  IF j <= Len(s) /\ s[j] = "]" THEN j + 1 ELSE JElements(s, j)
    ELSE 0

\* The members of an object from the opening quote of a key at i on.
JMembers(s, i) ==
    IF i > Len(s) \/ s[i] # "\"" THEN 0
    ELSE LET k == JString(s, i + 1)
             c == SkipWs(s, k)
         IN  IF k = 0 \/ c > Len(s) \/ s[c] # ":" THEN 0
             ELSE LET v == JValue(s, SkipWs(s, c + 1))
                      e == SkipWs(s, v)
                  IN  IF v = 0 \/ e > Len(s) THEN 0
                      ELSE IF s[e] = "}" THEN e + 1
                      ELSE IF s[e] = "," THEN JMembers(s, SkipWs(s, e + 1))
                      ELSE 0

\* The elements of an array from the value at i on.
JElements(s, i) ==
    LET v == JValue(s, i)
        e == SkipWs(s, v)
    IN  IF v = 0 \/ e > Len(s) THEN 0
        ELSE IF s[e] = "]" THEN e + 1
        ELSE IF s[e] = "," THEN JElements(s, SkipWs(s, e + 1))
        ELSE 0

\* json.loads(json_str): "error" for a JSONDecodeError, else the kind of
\* object decoded.
JsonLoads(s) ==
    LET b == SkipWs(s, 1)
        e == JValue(s, b)
    IN  IF e = 0 \/ SkipWs(s, e) # Len(s) + 1 THEN "error"
        ELSE IF s[b] = "{" /\ s[SkipWs(s, b + 1)] = "}" THEN "empty_dict"
        ELSE "dict"

RECURSIVE JsonTreeFrom(_, _, _)
\* The value json.loads builds from a text it accepts, written canonically:
\* the text without the whitespace between tokens and with the escape \/
\* decoded, so that two accepted texts decode to equal values exactly when
\* their canonical texts are equal.
JsonTreeFrom(s, i, in_string) ==
    IF i > Len(s) THEN <<>>
    ELSE IF in_string /\ s[i] = "\\" /\ i < Len(s)
    THEN (IF s[i + 1] = "/" THEN <<"/">> ELSE <<s[i], s[i + 1]>>)
         \o JsonTreeFrom(s, i + 2, TRUE)
    ELSE IF s[i] = "\"" THEN <<s[i]>> \o JsonTreeFrom(s, i + 1, ~in_string)
    ELSE IF ~in_string /\ s[i] \in Whitespace THEN JsonTreeFrom(s, i + 1, FALSE)
    ELSE <<s[i]>> \o JsonTreeFrom(s, i + 1, in_string)

\* The decoded value of json.loads(s), <<>> when it raises.
JsonTree(s) == IF JsonLoads(s) = "error" THEN <<>> ELSE JsonTreeFrom(s, 1, FALSE)

Idle == [cause |-> "idle", ret |-> "None", printed |-> FALSE, span |-> <<>>,
         tree |-> <<>>]

\* _extract_json_from_html(html_content): what it returns (None, or the dict
\* decoded), whether it printed "Error extracting JSON", the json_str it cut
\* out of the page, and the path it took.
ExtractJsonFromHtml(html_content) ==
    LET start_pos == StartPos(html_content)
    IN  IF start_pos = 0
        THEN [cause |-> "key_absent", ret |-> "None", printed |-> FALSE,
              span |-> <<>>, tree |-> <<>>]
        ELSE LET scan == ScanFrom(html_content, start_pos, 0, FALSE, FALSE)
             IN  IF scan.brace_count # 0
                 THEN [cause |-> "unbalanced", ret |-> "None", printed |-> FALSE,
                       span |-> <<>>, tree |-> <<>>]
                 ELSE LET json_str == SubSeq(html_content, start_pos, scan.end_pos - 1)
                          normalized == StripTrailingCommas(StripComments(json_str))
                          decoded == JsonLoads(normalized)
                      IN  IF decoded = "error"
                          THEN [cause |-> "parse_error", ret |-> "None",
                                printed |-> TRUE, span |-> json_str, tree |-> <<>>]
                          ELSE [cause |-> "ok", ret |-> decoded, printed |-> FALSE,
                                span |-> json_str, tree |-> JsonTree(normalized)]

ExtractJson ==
    /\ loc = Idle
    /\ loc' = ExtractJsonFromHtml(html)
    /\ UNCHANGED <<fam, pc, mem, disk, backup, op, ret, nops, html, json_data,
                   profile, batch, folder, html_ret,
                   scraper, request, scrape, saved>>

\* The pages the locator is run on: every text of up to MaxBody characters
\* of ScanAlphabet, alone and after the key, and pages with JSON in them.
ScanAlphabet == {"{", "}", "\"", "\\", "a"}

Bodies == UNION {[1..n -> ScanAlphabet] : n \in 0..MaxBody}

JsonPages ==
    {<<"{", "\"", "a", "\"", ":", "1", "}">>,
     <<"{", "\"", "a", "\"", ":", "\"", "}", "\"", "}", "a">>,
     <<"{", "\"", "a", "\\", "\"", "}", "\"", ":", "[", "1", ",", "1", "]", "}">>,
     <<"{", "\"", "a", "\"", ":", "{", "\"", "a", "\"", ":", "1", ",", "\n", "}", ",", "}">>,
     <<"{", "\"", "a", "\"", ":", "[", "1", ",", "]", "}">>,
     <<"{", "\"", "a", "\"", ":", "1", "/", "/", "a", "\n", "}">>,
     <<"{", "\"", "a", "\"", ":", "1", "/", "/", "\\", "{", "\n", "}">>,
     <<"{", "\"", "a", "\"", ":", "{", "\"", "a", "\"", ":", "1", "}">>,
     <<"{", "\"", "a", "\"", ":", "\"", ",", "}", "\"", "}">>,
     <<"{", "\"", "a", "\"", ":", "\"", ",", " ", "}", "{", "\"", "}", "a">>,
     <<"{", "\"", "/", "/", "\"", ":", "1", ",", "\n", "\"", "a", "\"", ":", "1", "}">>,
     <<"{", "\"", "a", "\"", ":", "\"", "/", "/", "\"", "}">>,
     <<"{", "\"", "a", "\"", ":", "\"", "\\", "/", "/", "\"", " ", "}", "\n">>}

Pages ==
    Bodies \cup {KeyLiteral \o b : b \in Bodies}
           \cup {KeyLiteral \o <<" ">> \o b : b \in Bodies}
           \cup {<<"a">> \o KeyLiteral \o <<"\n">> \o b : b \in JsonPages}

----------------------------------------------------------------------------
(* Rows the model draws its inputs from *)

FightRow(p, o, s) ==
    [Player |-> p, Date |-> "d1", Opponent |-> o, Event |-> "e1", Stat |-> s]

\* A fight row built from a dict without the 'Opponent' key.
FightRowNoOpponent == [Player |-> "A", Date |-> "d1", Event |-> "e1", Stat |-> "s1"]

ProfileRow(n, r) == [Name |-> n, Record |-> r]

\* The profile record scrape_fighter_data builds: 'Fighter Name', no 'Name'.
ScrapedProfileRow == ("Fighter Name" :> "A") @@ ("Total Fights" :> "t1")

WellFormedFightRows ==
    {FightRow("A", "X", "s1"), FightRow("A", "X", "s2"), FightRow("A", "Y", "s1")}

WellFormedProfileRows ==
    {ProfileRow("A", "r1"), ProfileRow("A", "r2"), ProfileRow("B", "r1")}

SeqsUpTo(S, n) == UNION {[1..k -> S] : k \in 0..n}

FramesUpTo(S, n) == {DataFrame(s) : s \in SeqsUpTo(S, n)}

IncomingFights == FramesUpTo(WellFormedFightRows \cup {FightRowNoOpponent}, MaxIncoming)

IncomingProfiles == FramesUpTo(WellFormedProfileRows \cup {ScrapedProfileRow}, MaxIncoming)

\* The incoming tables an operation may be handed.
Incoming(f) == IF f \in FightFamilies THEN IncomingFights ELSE IncomingProfiles

\* The tables _extract_profiles_from_html can build: every row has 'Name'.
Extracted == FramesUpTo(WellFormedProfileRows, MaxIncoming)

DistinctKeys(df, key) ==
    \A i, j \in 1..Len(df.rows) :
        i # j => KeyOf(df.rows[i], key) # KeyOf(df.rows[j], key)

\* The tables the V2 extractors build: every row has all the key columns.
V2Extracted(f) ==
    IF f \in FightFamilies THEN FramesUpTo(WellFormedFightRows, MaxIncoming)
    ELSE Extracted

\* Table files of earlier runs: well-formed rows with unique composite keys.
InitFightTables ==
    {DataFrame(<<FightRow("A", "X", "s1")>>),
     DataFrame(<<FightRow("A", "X", "s1"), FightRow("A", "Y", "s1")>>),
     DataFrame(<<FightRow("A", "Y", "s1"), FightRow("A", "X", "s2")>>)}

InitProfileTables ==
    {DataFrame(<<ProfileRow("A", "r1")>>),
     DataFrame(<<ProfileRow("A", "r1"), ProfileRow("B", "r1")>>),
     DataFrame(<<ProfileRow("B", "r1"), ProfileRow("A", "r2")>>)}

InitTables(f) == IF f \in FightFamilies THEN InitFightTables ELSE InitProfileTables

Unreadable(t) == [exists |-> TRUE, readable |-> FALSE, table |-> t]

InitFiles(f) ==
    {Absent} \cup {ToCsv(t) : t \in InitTables(f)}
             \cup {Unreadable(t) : t \in {u \in InitTables(f) : Len(u.rows) = 1}}

----------------------------------------------------------------------------
(* ESPNDataProcessor *)

RECURSIVE LoadFrom(_, _, _)
\* The attribute maps _load_existing_data can leave, loading the files of
\* LoadOrder[i..]: the first read that raises ends the whole try block.
LoadFrom(i, m, d) ==
    IF i > Len(LoadOrder) THEN {m}
    ELSE LET f == LoadOrder[i]
         IN  IF ~d[f].exists THEN LoadFrom(i + 1, m, d)
             ELSE UNION {IF r.ok
                         THEN LoadFrom(i + 1, [m EXCEPT ![LoadAttr(f)] = r.df], d)
                         ELSE {m} : r \in ReadCsv(d[f])}

\* _upsert_data whose empty-base branch returns new_df without storing it.
UpsertDataNotStored(existing_df, new_df, data_type) ==
    IF IsEmpty(new_df) THEN [ret |-> existing_df, stored |-> existing_df]
    ELSE IF IsEmpty(existing_df) THEN [ret |-> new_df, stored |-> existing_df]
    ELSE LET combined_df == Concat(existing_df, new_df)
             composite_key == CompositeKey(data_type)
         IN  IF KeyErrorIn(combined_df, composite_key)
             THEN [ret |-> existing_df, stored |-> existing_df]
             ELSE LET merged == DropDuplicatesKeepFirst(combined_df, composite_key)
                  IN  [ret |-> merged, stored |-> merged]

\* _upsert_data whose except clause keeps the new table.
UpsertDataErrorAdopts(existing_df, new_df, data_type) ==
    IF IsEmpty(new_df) THEN [ret |-> existing_df, stored |-> existing_df]
    ELSE IF IsEmpty(existing_df) THEN [ret |-> new_df, stored |-> new_df]
    ELSE LET combined_df == Concat(existing_df, new_df)
             composite_key == CompositeKey(data_type)
         IN  IF KeyErrorIn(combined_df, composite_key)
             THEN [ret |-> existing_df, stored |-> new_df]
             ELSE LET merged == DropDuplicatesKeepFirst(combined_df, composite_key)
                  IN  [ret |-> merged, stored |-> merged]

\* _upsert_data(data_type, new_df) on the attribute's value existing_df:
\* the frame returned and the frame the attribute holds afterwards.
UpsertData(existing_df, new_df, data_type) ==
    IF IsEmpty(new_df) THEN [ret |-> existing_df, stored |-> existing_df]
    ELSE IF IsEmpty(existing_df) THEN [ret |-> new_df, stored |-> new_df]
    ELSE LET combined_df == Concat(existing_df, new_df)
             composite_key == CompositeKey(data_type)
         IN  IF KeyErrorIn(combined_df, composite_key)
             THEN [ret |-> existing_df, stored |-> existing_df]
             ELSE LET merged == DropDuplicatesKeepFirst(combined_df, composite_key)
                  IN  [ret |-> merged, stored |-> merged]

NoOp == [name |-> "none", f |-> "clinch", new |-> EmptyDF, existing |-> EmptyDF]

\* __init__: empty containers, then _load_existing_data.
Construct ==
    /\ pc = "new" \/ (pc = "ready" /\ nops < MaxOps)
    /\ mem' \in LoadFrom(1, [a \in Attrs |-> EmptyDF], disk)
    /\ pc' = "ready"
    /\ op' = [NoOp EXCEPT !.name = "init"]
    /\ ret' = EmptyDF
    /\ nops' = IF pc = "new" THEN nops ELSE nops + 1
    /\ UNCHANGED <<fam, disk, backup, html, loc, json_data, profile, batch,
                 folder, html_ret, scraper, request, scrape, saved>>

\* A direct call _upsert_data(f, new_df), as run_full_processing makes.
Upsert(f, new_df) ==
    /\ pc = "ready" /\ nops < MaxOps
    /\ LET existing_df == mem[UpsertAttr(f)]
           u == UpsertData(existing_df, new_df, f)
       IN  /\ mem' = [mem EXCEPT ![UpsertAttr(f)] = u.stored]
           /\ ret' = u.ret
           /\ op' = [name |-> "upsert", f |-> f, new |-> new_df,
                     existing |-> existing_df]
    /\ nops' = nops + 1
    /\ UNCHANGED <<fam, pc, disk, backup, html, loc, json_data, profile, batch,
                 folder, html_ret, scraper, request, scrape, saved>>

\* process_fight_data(data_type): the scraped frame is an empty placeholder.
ProcessFightData(f) ==
    /\ pc = "ready" /\ nops < MaxOps
    /\ f \in FightFamilies
    /\ LET existing_df == mem[UpsertAttr(f)]
           u == UpsertData(existing_df, EmptyDF, f)
       IN  /\ mem' = [mem EXCEPT ![UpsertAttr(f)] = u.stored]
           /\ disk' = [disk EXCEPT ![f] = ToCsv(u.ret)]
           /\ ret' = u.ret
           /\ op' = [name |-> "process_fight_data", f |-> f, new |-> EmptyDF,
                     existing |-> existing_df]
    /\ nops' = nops + 1
    /\ UNCHANGED <<fam, pc, backup, html, loc, json_data, profile, batch,
                 folder, html_ret, scraper, request, scrape, saved>>

\* process_fighter_profiles(), new_df being what the stored pages yield.
ProcessFighterProfiles(new_df) ==
    /\ pc = "ready" /\ nops < MaxOps
    /\ LET existing_df == mem[UpsertAttr("profiles")]
           u == UpsertData(existing_df, new_df, "profiles")
       IN  /\ mem' = [mem EXCEPT ![UpsertAttr("profiles")] = u.stored]
           /\ disk' = [disk EXCEPT !["profiles"] = ToCsv(u.ret)]
           /\ backup' = ToCsv(u.ret)
           /\ ret' = u.ret
           /\ op' = [name |-> "process_fighter_profiles", f |-> "profiles",
                     new |-> new_df, existing |-> existing_df]
    /\ nops' = nops + 1
    /\ UNCHANGED <<fam, pc, html, loc, json_data, profile, batch,
                 folder, html_ret, scraper, request, scrape, saved>>

----------------------------------------------------------------------------
(* ESPNEnhancedScraper (V2) *)

\* _upsert_data(new_df, existing_file, composite_key), read being the outcome
\* of its pd.read_csv(existing_file).
V2UpsertData(new_df, existing_file, read, composite_key) ==
    IF IsEmpty(new_df) THEN EmptyDF
    ELSE IF existing_file.exists
         THEN IF read.ok /\ ~KeyErrorIn(Concat(read.df, new_df), composite_key)
              THEN DropDuplicatesKeepLast(Concat(read.df, new_df), composite_key)
              ELSE new_df
         ELSE new_df

\* process_fighter_profiles / one section of process_living_data: the merged
\* frame is written only when it is not empty.
V2Process(f, new_df) ==
    /\ nops < MaxOps
    /\ \E read \in ReadCsv(disk[f]) :
        LET updated_df == V2UpsertData(new_df, disk[f], read, V2CompositeKey(f))
        IN  /\ disk' = IF IsEmpty(updated_df) THEN disk
                       ELSE [disk EXCEPT ![f] = ToCsv(updated_df)]
            /\ backup' = IF f = "profiles" /\ ~IsEmpty(updated_df)
                         THEN ToCsv(updated_df) ELSE backup
            /\ ret' = updated_df
            /\ op' = [name |-> "v2_upsert", f |-> f, new |-> new_df,
                      existing |-> IF disk[f].exists THEN read.df ELSE EmptyDF]
    /\ nops' = nops + 1
    /\ UNCHANGED <<fam, pc, mem, html, loc, json_data, profile, batch,
                 folder, html_ret, scraper, request, scrape, saved>>

----------------------------------------------------------------------------
(* The A1 record mapper: A1StyleESPNProcessor._extract_a1_style_profile *)

\* A Python dict is a function from its keys; {} has no key.
EmptyDict == [key \in {} |-> ""]

\* d.get(key, default)
Get(d, key, default) == IF key \in DOMAIN d THEN d[key] ELSE default

\* A display value such as '5-2-0' is kept as the list of its parts between
\* hyphens, what value.split('-') returns: '' is <<"">>.
EmptyString == <<"">>

DefaultRecord == <<"0", "0", "0">>

ValueError == -1

\* int(part): the number a decimal numeral stands for, ValueError otherwise.
ParseInt(part) ==
    CASE part = "0" -> 0
      [] part = "1" -> 1
      [] part = "2" -> 2
      [] part = "3" -> 3
      [] part = "4" -> 4
      [] part = "5" -> 5
      [] OTHER -> ValueError

\* '-' in value
HasHyphen(value) == Len(value) >= 2

RECURSIVE StatisticsLoop(_, _, _)
\* The loop over stats_summary['statistics'] from entry i on; acc holds
\* record, ko_wins, sub_wins and whether an int() raised.
StatisticsLoop(statistics, i, acc) ==
    IF i > Len(statistics) \/ acc.raised THEN acc
    ELSE LET stat == statistics[i]
             stat_name == Get(stat, "name", "")
             stat_value == Get(stat, "displayValue", EmptyString)
             first == ParseInt(stat_value[1])
         IN  IF stat_name = "wins-losses-draws"
             THEN StatisticsLoop(statistics, i + 1, [acc EXCEPT !.record = stat_value])
             ELSE IF stat_name = "tkos-tkoLosses" /\ HasHyphen(stat_value)
             THEN StatisticsLoop(statistics, i + 1,
                     IF first = ValueError THEN [acc EXCEPT !.raised = TRUE]
                     ELSE [acc EXCEPT !.ko_wins = first])
             ELSE IF stat_name = "submissions-submissionLosses" /\ HasHyphen(stat_value)
             THEN StatisticsLoop(statistics, i + 1,
                     IF first = ValueError THEN [acc EXCEPT !.raised = TRUE]
                     ELSE [acc EXCEPT !.sub_wins = first])
             ELSE StatisticsLoop(statistics, i + 1, acc)

\* record, ko_wins, sub_wins and dec_wins as the mapper derives them from
\* athlete['statsSummary'].
RecordAndWins(athlete) ==
    LET stats_summary == Get(athlete, "statsSummary", EmptyDict)
        init == [record |-> DefaultRecord, ko_wins |-> 0, sub_wins |-> 0,
                 dec_wins |-> 0, raised |-> FALSE]
        acc == IF "statistics" \in DOMAIN stats_summary
               THEN StatisticsLoop(stats_summary["statistics"], 1, init)
               ELSE init
        total_wins == ParseInt(acc.record[1])
    IN  IF acc.raised \/ ~HasHyphen(acc.record) THEN acc
        ELSE IF total_wins = ValueError THEN [acc EXCEPT !.raised = TRUE]
        ELSE [acc EXCEPT !.dec_wins = total_wins - acc.ko_wins - acc.sub_wins]

\* The fight dict built from one entry of eventsMap.
Fight(event_data) ==
    LET status == Get(event_data, "status", EmptyDict)
    IN  [date |-> Get(event_data, "gameDate", ""),
         result |-> Get(event_data, "gameResult", ""),
         event_name |-> Get(event_data, "name", ""),
         title_fight |-> Get(event_data, "titleFight", FALSE),
         opponent |-> Get(Get(event_data, "opponent", EmptyDict), "displayName", ""),
         finish_method |-> Get(Get(status, "result", EmptyDict), "displayName", ""),
         round |-> Get(status, "period", ""),
         time |-> Get(status, "displayClock", "")]

\* The dates of the model are '' and 'd1', 'd2', ...: as Python strings they
\* compare in this order.
DateOf(i) == "d" \o ToString(i)

DateRank(date) == IF date = "" THEN 0 ELSE CHOOSE i \in 1..9 : DateOf(i) = date

\* The fights left in the order of eventsMap.
Unsorted(fights) == fights

RECURSIVE SortNewestFirst(_)
\* fights.sort(key=lambda x: x['date'], reverse=True): a stable sort, equal
\* dates keeping their order.
SortNewestFirst(fights) ==
    IF fights = <<>> THEN <<>>
    ELSE LET last == fights[Len(fights)]
             sorted == SortNewestFirst(SubSeq(fights, 1, Len(fights) - 1))
             before == SelectSeq(sorted, LAMBDA f : DateRank(f.date) >= DateRank(last.date))
             after == SelectSeq(sorted, LAMBDA f : DateRank(f.date) < DateRank(last.date))
         IN  before \o <<last>> \o after

\* fights as the mapper has them after the loop over eventsMap and the sort.
FightHistory(tree) ==
    LET events_map == Get(tree, "eventsMap", <<>>)
    IN  SortNewestFirst([i \in 1..Len(events_map) |-> Fight(events_map[i])])

\* A streak loop that goes on counting wins after the first non-win.
WinStreakLoopNoBreak(fights, i, acc) ==
    [acc EXCEPT !.win_streak = Cardinality({j \in i..Len(fights) : fights[j].result = "W"})]

\* A streak loop that counts title wins over the whole history.
WinStreakLoopAllTitles(fights, i, acc) ==
    LET wins == IF \E j \in i..Len(fights) : fights[j].result # "W"
                THEN (CHOOSE j \in i..Len(fights) :
                         /\ fights[j].result # "W"
                         /\ \A m \in i..(j - 1) : fights[m].result = "W") - i
                ELSE Len(fights) - i + 1
        titles == Cardinality({j \in i..Len(fights) :
                                  fights[j].title_fight /\ fights[j].result = "W"})
    IN  [win_streak |-> acc.win_streak + wins,
         title_defenses |-> acc.title_defenses + titles,
         former_champion |-> acc.former_champion \/ titles > 0]

RECURSIVE WinStreakLoop(_, _, _)
\* The loop 'for fight in fights' from fight i on; acc holds win_streak,
\* title_defenses and former_champion.
WinStreakLoop(fights, i, acc) ==
    IF i > Len(fights) THEN acc
    ELSE IF fights[i].result # "W" THEN acc
    ELSE LET counted == [acc EXCEPT !.win_streak = acc.win_streak + 1]
         IN  IF fights[i].title_fight
             THEN WinStreakLoop(fights, i + 1,
                     [counted EXCEPT !.title_defenses = acc.title_defenses + 1,
                                     !.former_champion = TRUE])
             ELSE WinStreakLoop(fights, i + 1, counted)

\* The number of Event_<n>_* groups of a profile row.
Slots == 3

SlotFields == {"Headline", "Date", "Round", "Time", "Method"}

SlotKey(fight_num, field) == "Event_" \o ToString(fight_num) \o "_" \o field

SlotValue(fight, field) ==
    CASE field = "Headline" -> fight.event_name
      [] field = "Date" -> fight.date
      [] field = "Round" -> fight.round
      [] field = "Time" -> fight.time
      [] field = "Method" -> fight.finish_method

BlankFight ==
    [date |-> "", result |-> "", event_name |-> "", title_fight |-> FALSE,
     opponent |-> "", finish_method |-> "", round |-> "", time |-> ""]

\* The five assignments fighter_data[f'Event_{fight_num}_...'] = ... of one
\* loop iteration.
SlotGroup(fight_num, fight) ==
    [k \in {SlotKey(fight_num, f) : f \in SlotFields} |->
        SlotValue(fight, CHOOSE f \in SlotFields : SlotKey(fight_num, f) = k)]

RECURSIVE RecentFightSlots(_, _)
\* for i, fight in enumerate(fights[:3]), iterations i..: the keys it sets.
RecentFightSlots(fights, fight_num) ==
    IF fight_num > Slots \/ fight_num > Len(fights) THEN EmptyDict
    ELSE SlotGroup(fight_num, fights[fight_num]) @@ RecentFightSlots(fights, fight_num + 1)

\* A fill loop that sets no key.
NoSlotFill(fights, fight_num) == EmptyDict

RECURSIVE RemainingSlots(_, _)
\* for i in range(len(fights), 3), from fight_num = i + 1 on: the keys it sets.
RemainingSlots(fights, fight_num) ==
    IF fight_num > Slots THEN EmptyDict
    ELSE SlotGroup(fight_num, BlankFight) @@ RemainingSlots(fights, fight_num + 1)

\* text of weightClass / stance: .get('text', '') of the sub-dict.
TextOf(athlete, key) == Get(Get(athlete, key, EmptyDict), "text", "")

\* _extract_a1_style_profile(json_data, fighter_name): "raised" when an int()
\* raises ValueError, else the fighter_data dict. Of the fields that are ''
\* or 0 whatever the tree, 'Striking accuracy' and 'First Round Finishes'
\* stand for all.
ExtractA1StyleProfile(tree, fighter_name) ==
    LET athlete == Get(tree, "athlete", EmptyDict)
        wins == RecordAndWins(athlete)
        fights == FightHistory(tree)
        streak == WinStreakLoop(fights, 1,
                    [win_streak |-> 0, title_defenses |-> 0, former_champion |-> FALSE])
        fighter_data ==
            ("Name" :> Get(athlete, "displayName", fighter_name))
            @@ ("Division Title" :> TextOf(athlete, "weightClass"))
            @@ ("Division Record" :> wins.record)
            @@ ("Wins by Knockout" :> wins.ko_wins)
            @@ ("Wins by Submission" :> wins.sub_wins)
            @@ ("First Round Finishes" :> 0)
            @@ ("Wins by Decision" :> wins.dec_wins)
            @@ ("Striking accuracy" :> "")
            @@ ("Win by Method - KO/TKO" :> wins.ko_wins)
            @@ ("Win by Method - DEC" :> wins.dec_wins)
            @@ ("Win by Method - SUB" :> wins.sub_wins)
            @@ ("Status" :> IF Get(athlete, "active", FALSE) THEN "Active" ELSE "Inactive")
            @@ ("Fighting style" :> TextOf(athlete, "stance"))
            @@ ("Trains at" :> Get(Get(athlete, "team", EmptyDict), "name", ""))
            @@ ("Fight Win Streak" :> streak.win_streak)
            @@ ("Title Defenses" :> streak.title_defenses)
            @@ ("Former Champion" :> streak.former_champion)
    IN  IF wins.raised THEN [by |-> "a1", outcome |-> "raised", row |-> EmptyDict]
        ELSE [by |-> "a1", outcome |-> "ok",
              row |-> RemainingSlots(fights, Len(fights) + 1)
                      @@ RecentFightSlots(fights, 1) @@ fighter_data]

----------------------------------------------------------------------------
(* The plyrHdr record mapper: ESPNDataProcessor._extract_profiles_from_html *)

\* int(parts[0]) if parts[0].isdigit() else 0
DigitsOrZero(part) == IF ParseInt(part) = ValueError THEN 0 ELSE ParseInt(part)

RECURSIVE StatsBlckLoop(_, _, _)
\* The loop over athlete_data['statsBlck']['vals'] from entry i on, on the
\* profile dict p.
StatsBlckLoop(stats, i, p) ==
    IF i > Len(stats) THEN p
    ELSE LET stat == stats[i]
             name == Get(stat, "name", "")
         IN  IF name = "Wins-Losses-Draws"
             THEN LET record == Get(stat, "val", DefaultRecord)
                      q == ("Division Rk" :> record) @@ p
                  IN  StatsBlckLoop(stats, i + 1,
                         IF Len(record) >= 3
                         THEN ("Wins by De" :> DigitsOrZero(record[1])) @@ q
                         ELSE q)
             ELSE IF name = "Technical Knockout-Technical Knockout Losses"
             THEN LET parts == Get(stat, "val", <<"0", "0">>)
                  IN  StatsBlckLoop(stats, i + 1,
                         IF Len(parts) >= 2
                         THEN ("Wins by Kn" :> DigitsOrZero(parts[1])) @@ p
                         ELSE p)
             ELSE IF name = "Submissions-Submission Losses"
             THEN LET parts == Get(stat, "val", <<"0", "0">>)
                  IN  StatsBlckLoop(stats, i + 1,
                         IF Len(parts) >= 2
                         THEN ("Wins by Su" :> DigitsOrZero(parts[1])) @@ p
                         ELSE p)
             ELSE StatsBlckLoop(stats, i + 1, p)

\* The keys of ath and the profile fields they are copied to; dob, whose
\* age is parsed out, apart.
AthFields ==
    {<<"htwt", "Height">>, <<"htwt", "Weight">>, <<"rch", "Reach">>,
     <<"stnc", "Fighting_s">>, <<"cntry", "Place_ct">>, <<"tm", "Trains_at">>}

\* The 'if key in ath_data: profile[field] = ath_data[key]' statements of
\* one personal-info block; a dob is written as the age between its
\* brackets ('' when it has none), which is what Age is set to.
PersonalInfo(ath_data, p, fields) ==
    [k \in DOMAIN p |->
        IF \E kf \in fields : kf[2] = k /\ kf[1] \in DOMAIN ath_data
        THEN ath_data[(CHOOSE kf \in fields : kf[2] = k /\ kf[1] \in DOMAIN ath_data)[1]]
        ELSE IF k = "Age" /\ Get(ath_data, "dob", "") # "" THEN ath_data["dob"]
        ELSE p[k]]

\* The body of the loop over the stored pages once json.loads has returned
\* data: "skipped" for the continue without plyrHdr, else the profile dict.
\* Of the fields that are '' or 0 whatever the tree, 'Striking ac' and
\* 'First Roun' stand for all.
ExtractProfileFromHtml(data, fighter_name) ==
    IF "plyrHdr" \notin DOMAIN data
    THEN [by |-> "plyrHdr", outcome |-> "skipped", row |-> EmptyDict]
    ELSE LET athlete_data == data["plyrHdr"]
             initial ==
                 ("Name" :> fighter_name)
                 @@ ("Division Tr" :> Get(Get(athlete_data, "ath", EmptyDict), "wghtclss", ""))
                 @@ ("Division Rk" :> EmptyString)
                 @@ ("Wins by Kn" :> 0)
                 @@ ("Wins by Su" :> 0)
                 @@ ("First Roun" :> 0)
                 @@ ("Wins by De" :> 0)
                 @@ ("Striking ac" :> "")
                 @@ ("Status" :> "Active")
                 @@ ("Place_ct" :> "")
                 @@ ("Fighting_s" :> "")
                 @@ ("Age" :> "")
                 @@ ("Height" :> "")
                 @@ ("Weight" :> "")
                 @@ ("Reach" :> "")
                 @@ ("Trains_at" :> "")
                 @@ ("Former Champion" :> "")
             counted ==
                 IF "vals" \in DOMAIN Get(athlete_data, "statsBlck", EmptyDict)
                 THEN StatsBlckLoop(athlete_data["statsBlck"]["vals"], 1, initial)
                 ELSE initial
             first == PersonalInfo(Get(athlete_data, "ath", EmptyDict), counted, AthFields)
             nested == Get(Get(athlete_data, "plyrHdr", EmptyDict), "ath", EmptyDict)
             second == PersonalInfo(nested, first,
                                    AthFields \cup {<<"wghtclss", "Division Tr">>})
         IN  [by |-> "plyrHdr", outcome |-> "ok", row |-> second]

NoProfile == [by |-> "none", outcome |-> "idle", row |-> EmptyDict]

NoBatch == [by |-> "none", fighters |-> <<>>, i |-> 0, all_data |-> <<>>, state |-> "idle"]

NoFolder == [name \in {} |-> ""]

NoCall == [new |-> <<>>, before |-> NoFolder, ret |-> [kind |-> "idle"],
           caller |-> "none", raised |-> FALSE]

\* The batch's fighter_name, used when the tree has no displayName.
FighterName == "F"

A1Profile ==
    /\ profile = NoProfile
    /\ profile' = ExtractA1StyleProfile(json_data, FighterName)
    /\ UNCHANGED <<fam, pc, mem, disk, backup, op, ret, nops, html, loc, json_data,
                   batch, folder, html_ret, scraper, request, scrape, saved>>

PlyrHdrProfile ==
    /\ profile = NoProfile
    /\ profile' = ExtractProfileFromHtml(json_data, FighterName)
    /\ UNCHANGED <<fam, pc, mem, disk, backup, op, ret, nops, html, loc, json_data,
                   batch, folder, html_ret, scraper, request, scrape, saved>>

----------------------------------------------------------------------------
(* Parsed trees the mappers are run on *)

MaxFights == 4       \* entries of eventsMap
MaxStats == 3        \* entries of statsSummary.statistics

WithKey(S, key) == {EmptyDict} \cup {key :> v : v \in S}

\* One entry of eventsMap with every sub-key present.
EventData(date, result, title) ==
    [gameDate |-> date, gameResult |-> result, titleFight |-> title,
     name |-> "at " \o date,
     opponent |-> [displayName |-> "X"],
     status |-> [result |-> [displayName |-> "KO"], period |-> "r" \o date,
                 displayClock |-> "t" \o date]]

Results == {"W", "L", ""}

\* Histories given most-recent-first: entry i of n has date d<n - i + 1>.
OrderedHistories ==
    UNION {{[i \in 1..n |-> EventData(DateOf(n - i + 1), r[i], t[i])] :
               r \in [1..n -> Results], t \in [1..n -> BOOLEAN]} : n \in 0..MaxFights}

\* Histories in any order of date, '' included.
ShuffledHistories ==
    UNION {[1..n -> {EventData(d, r, t) : d \in {"", "d1", "d2"}, r \in {"W", "L"},
                                           t \in BOOLEAN}] : n \in 2..3}

\* Entries of eventsMap with sub-keys absent.
SparseEvents ==
    {EmptyDict,
     [gameDate |-> "d1"],
     [gameDate |-> "d1", gameResult |-> "W", status |-> EmptyDict],
     [gameDate |-> "d1", gameResult |-> "W", name |-> "at d1",
      status |-> [result |-> EmptyDict, period |-> "rd1"]],
     [gameResult |-> "W", titleFight |-> TRUE, opponent |-> EmptyDict]}

SparseHistories == UNION {[1..n -> SparseEvents] : n \in 1..2}

Statistic(name, value) == [name |-> name, displayValue |-> value]

Statistics ==
    {Statistic("wins-losses-draws", <<"5", "2", "0">>),
     Statistic("tkos-tkoLosses", <<"3", "1">>),
     Statistic("submissions-submissionLosses", <<"4", "0">>),
     Statistic("submissions-submissionLosses", <<"1", "0">>),
     Statistic("tkos-tkoLosses", <<"N/A", "1">>),
     Statistic("wins-losses-draws", <<"N/A">>),
     [name |-> "wins-losses-draws"],
     [displayValue |-> <<"3", "1">>]}

StatsSummaries ==
    {EmptyDict} \cup
    {[statistics |-> st] : st \in UNION {[1..n -> Statistics] : n \in 0..MaxStats}}

FullStatsSummary ==
    [statistics |-> <<Statistic("wins-losses-draws", <<"5", "2", "0">>),
                      Statistic("tkos-tkoLosses", <<"3", "1">>),
                      Statistic("submissions-submissionLosses", <<"1", "0">>)>>]

FullAthlete ==
    [displayName |-> "N", weightClass |-> [text |-> "LW"], stance |-> [text |-> "Orthodox"],
     team |-> [name |-> "T"], active |-> TRUE, statsSummary |-> FullStatsSummary]

\* Athletes with any subset of the optional sub-keys absent or empty.
SparseAthletes ==
    {n @@ w @@ s @@ t @@ a @@ ss :
        n \in WithKey({"N"}, "displayName"),
        w \in WithKey({EmptyDict, [text |-> "LW"]}, "weightClass"),
        s \in WithKey({EmptyDict, [text |-> "Orthodox"]}, "stance"),
        t \in WithKey({EmptyDict, [name |-> "T"]}, "team"),
        a \in WithKey({TRUE}, "active"),
        ss \in WithKey({EmptyDict, FullStatsSummary}, "statsSummary")}

AthleteTrees ==
    {[athlete |-> FullAthlete, eventsMap |-> h] :
        h \in OrderedHistories \cup ShuffledHistories \cup SparseHistories}
    \cup {[athlete |-> a, eventsMap |-> h] :
            a \in SparseAthletes, h \in {<<>>, <<EventData("d1", "W", TRUE)>>}}
    \cup {[athlete |-> a] : a \in SparseAthletes}
    \cup {[athlete |-> EmptyDict, eventsMap |-> h] : h \in SparseHistories}
    \cup {[athlete |-> [FullAthlete EXCEPT !.statsSummary = ss],
           eventsMap |-> <<EventData("d1", "W", FALSE)>>] : ss \in StatsSummaries}

Val(name, val) == [name |-> name, val |-> val]

Vals ==
    {Val("Wins-Losses-Draws", <<"5", "2", "0">>),
     Val("Technical Knockout-Technical Knockout Losses", <<"3", "1">>),
     Val("Submissions-Submission Losses", <<"1", "0">>),
     Val("Wins-Losses-Draws", <<"N/A">>),
     [name |-> "Wins-Losses-Draws"],
     [val |-> <<"3", "1">>]}

StatsBlcks ==
    {EmptyDict} \cup {[vals |-> v] : v \in UNION {[1..n -> Vals] : n \in 0..2}}

SparseAths ==
    {w @@ s @@ t @@ d :
        w \in WithKey({"LW"}, "wghtclss"),
        s \in WithKey({"Orthodox"}, "stnc"),
        t \in WithKey({"T"}, "tm"),
        d \in WithKey({"", "34.0"}, "dob")}

\* Trees rooted at plyrHdr, any subset of the sub-keys absent.
PlyrHdrTrees ==
    {[plyrHdr |-> a @@ b] :
        a \in WithKey(SparseAths, "ath"), b \in WithKey(StatsBlcks, "statsBlck")}
    \cup {[plyrHdr |-> [plyrHdr |-> [ath |-> [wghtclss |-> "WW", rch |-> "72"]],
                        ath |-> a]] : a \in SparseAths}

\* The data of one fighter in the athlete shape and in the plyrHdr shape.
AthleteShape(name, division, record) ==
    [athlete |-> [displayName |-> name, weightClass |-> [text |-> division],
                  statsSummary |->
                      [statistics |-> <<Statistic("wins-losses-draws", record)>>]]]

PlyrHdrShape(name, division, record) ==
    [plyrHdr |-> [ath |-> [dspNm |-> name, wghtclss |-> division],
                  statsBlck |-> [vals |-> <<Val("Wins-Losses-Draws", record)>>]]]

Divisions == {"LW", "WW"}

Records == {<<"5", "2", "0">>, <<"3", "0", "1">>}

ShapedTrees ==
    {AthleteShape(FighterName, d, r) : d \in Divisions, r \in Records}
    \cup {PlyrHdrShape(FighterName, d, r) : d \in Divisions, r \in Records}

\* Trees with neither root key.
RootlessTrees == {EmptyDict, [page |-> EmptyDict], [eventsMap |-> <<>>]}

Trees == AthleteTrees \cup PlyrHdrTrees \cup ShapedTrees \cup RootlessTrees

----------------------------------------------------------------------------
(* Batch runs over the stored pages *)

MaxFighters == 3     \* fighters of a batch

\* A fighter's stored page: whether the file exists, how the search for the
\* embedded object in it ends, and the tree decoded when it ends well.
Page(cause, tree) == [exists |-> TRUE, cause |-> cause, tree |-> tree]

MissingPage == [exists |-> FALSE, cause |-> "key_absent", tree |-> EmptyDict]

\* A tree whose KO statistic has a non-numeric win count.
NonNumericWins ==
    [athlete |-> [displayName |-> "N",
                  statsSummary |->
                      [statistics |-> <<Statistic("tkos-tkoLosses", <<"N/A", "1">>)>>]]]

BatchPages ==
    {MissingPage,
     Page("key_absent", EmptyDict), Page("unbalanced", EmptyDict),
     Page("parse_error", EmptyDict), Page("ok", EmptyDict),
     Page("ok", AthleteShape("N", "LW", <<"5", "2", "0">>)),
     Page("ok", PlyrHdrShape("N", "LW", <<"5", "2", "0">>)),
     Page("ok", NonNumericWins)}

\* extract_a1_style_data(fighter_name): None without a file, without a
\* decoded tree or with an empty one; else what the mapper returns, its
\* exception propagating.
ExtractA1StyleData(page) ==
    IF ~page.exists \/ page.cause # "ok" \/ page.tree = EmptyDict
    THEN [outcome |-> "none", row |-> EmptyDict]
    ELSE LET m == ExtractA1StyleProfile(page.tree, FighterName)
         IN  [outcome |-> m.outcome, row |-> m.row]

\* One iteration of the loop of process_all_fighters.
A1BatchStep ==
    /\ batch.by = "a1" /\ batch.state = "running" /\ batch.i < Len(batch.fighters)
    /\ LET fighter_data == ExtractA1StyleData(batch.fighters[batch.i + 1])
       IN  batch' =
             IF fighter_data.outcome = "raised"
             THEN [batch EXCEPT !.state = "raised"]
             ELSE IF fighter_data.outcome = "ok"
             THEN [batch EXCEPT !.i = @ + 1, !.all_data = Append(@, fighter_data.row)]
             ELSE [batch EXCEPT !.i = @ + 1]
    /\ UNCHANGED <<fam, pc, mem, disk, backup, op, ret, nops, html, loc, json_data,
                   profile, folder, html_ret, scraper, request, scrape, saved>>

\* process_all_fighters returning its DataFrame, after the loop or at once
\* for an empty list.
A1BatchReturn ==
    /\ batch.by = "a1" /\ batch.state = "running" /\ batch.i = Len(batch.fighters)
    /\ batch' = [batch EXCEPT !.state = "returned"]
    /\ UNCHANGED <<fam, pc, mem, disk, backup, op, ret, nops, html, loc, json_data,
                   profile, folder, html_ret, scraper, request, scrape, saved>>

\* One iteration of the loop of _extract_profiles_from_html: a page without
\* the object, without a decoded tree or without plyrHdr is passed over.
PlyrHdrBatchStep ==
    /\ batch.by = "plyrHdr" /\ batch.state = "running" /\ batch.i < Len(batch.fighters)
    /\ LET page == batch.fighters[batch.i + 1]
           m == ExtractProfileFromHtml(page.tree, FighterName)
       IN  batch' =
             IF page.cause = "ok" /\ m.outcome = "ok"
             THEN [batch EXCEPT !.i = @ + 1, !.all_data = Append(@, m.row)]
             ELSE [batch EXCEPT !.i = @ + 1]
    /\ UNCHANGED <<fam, pc, mem, disk, backup, op, ret, nops, html, loc, json_data,
                   profile, folder, html_ret, scraper, request, scrape, saved>>

\* _extract_profiles_from_html returning pd.DataFrame(profiles).
PlyrHdrBatchReturn ==
    /\ batch.by = "plyrHdr" /\ batch.state = "running" /\ batch.i = Len(batch.fighters)
    /\ batch' = [batch EXCEPT !.state = "returned"]
    /\ UNCHANGED <<fam, pc, mem, disk, backup, op, ret, nops, html, loc, json_data,
                   profile, folder, html_ret, scraper, request, scrape, saved>>

----------------------------------------------------------------------------
(* The store of fighter pages: ESPNDataProcessor.upsert_html_files *)

MaxPages == 2        \* entries of new_html_files

\* fighter_name.replace(' ', '_').replace('/', '_').replace('\\', '_'), a
\* name being the sequence of its characters.
SafeName(fighter_name) ==
    [i \in 1..Len(fighter_name) |->
        IF fighter_name[i] \in {" ", "/", "\\"} THEN "_" ELSE fighter_name[i]]

\* A loop that writes a page only when no file of that name exists.
HtmlLoopNewOnly(new_html_files, i, files) ==
    LET fresh == {j \in i..Len(new_html_files) :
                     SafeName(new_html_files[j][1]) \notin DOMAIN files}
    IN  [n \in DOMAIN files \cup {SafeName(new_html_files[j][1]) : j \in fresh} |->
            IF n \in DOMAIN files THEN files[n]
            ELSE new_html_files[CHOOSE j \in fresh :
                    /\ SafeName(new_html_files[j][1]) = n
                    /\ \A m \in fresh : SafeName(new_html_files[m][1]) = n => j <= m][2]]

RECURSIVE HtmlLoop(_, _, _)
\* The loop over new_html_files.items() from item i on, files being the
\* folder: a page is written when no file of its safe name exists or the
\* file's content differs (a file that cannot be read is written as well,
\* which leaves the same folder).
HtmlLoop(new_html_files, i, files) ==
    IF i > Len(new_html_files) THEN files
    ELSE LET safe_name == SafeName(new_html_files[i][1])
             html_content == new_html_files[i][2]
             should_write == safe_name \notin DOMAIN files \/ files[safe_name] # html_content
         IN  HtmlLoop(new_html_files, i + 1,
                      IF should_write THEN (safe_name :> html_content) @@ files ELSE files)

\* What upsert_html_files returns: the function has no return statement.
ReturnsNone == [kind |-> "None"]

\* upsert_html_files(new_html_files) called for its effect, as
\* run_full_processing calls it.
UpsertHtmlFiles(new_html_files) ==
    /\ html_ret = NoCall
    /\ folder' = HtmlLoop(new_html_files, 1, folder)
    /\ html_ret' = [new |-> new_html_files, before |-> folder, ret |-> ReturnsNone,
                    caller |-> "run_full_processing", raised |-> FALSE]
    /\ UNCHANGED <<fam, pc, mem, disk, backup, op, ret, nops, html, loc, json_data,
                   profile, batch, scraper, request, scrape, saved>>

\* process_fighter_htmls: new_count, updated_count = self.upsert_html_files(...)
\* raises TypeError when what is returned cannot be unpacked.
ProcessFighterHtmls(new_html_files) ==
    /\ html_ret = NoCall
    /\ folder' = HtmlLoop(new_html_files, 1, folder)
    /\ html_ret' = [new |-> new_html_files, before |-> folder, ret |-> ReturnsNone,
                    caller |-> "process_fighter_htmls",
                    raised |-> ReturnsNone.kind # "pair"]
    /\ UNCHANGED <<fam, pc, mem, disk, backup, op, ret, nops, html, loc, json_data,
                   profile, batch, scraper, request, scrape, saved>>

FighterNames == {<<"A", " ", "B">>, <<"A", "_", "B">>, <<"A", "/", "B">>, <<"C">>}

Contents == {"old content", "new content"}

\* The dicts new_html_files: up to MaxPages items, their names distinct.
NewHtmlFiles ==
    {d \in UNION {[1..n -> FighterNames \X Contents] : n \in 0..MaxPages} :
        \A i, j \in 1..Len(d) : i # j => d[i][1] # d[j][1]}

\* Folders of earlier runs: files named by safe names.
Folders ==
    UNION {[S -> Contents] : S \in SUBSET {<<"A", "_", "B">>, <<"C">>, <<"D">>}}

----------------------------------------------------------------------------
(* ESPNFighterScraper: the rate limiter and _make_request *)

MaxTime == 64        \* seconds of a behaviour after construction
MaxIdles == 1        \* times the caller lets time pass between requests
MaxElapse == 2       \* seconds the caller lets pass at once

\* 'if self.requests_this_minute >= 25'
RequestsPerMinute == 25

\* The length of the limiter's window in seconds.
Minute == 60

\* rate_limit and max_retries as ESPNDataProcessor configures them.
rate_limit == 2

max_retries == 5

\* time.time() at construction, in seconds since the epoch: more than
\* rate_limit after last_request_time = 0.
ConstructedAt == 100

\* __init__: the clock now, the limiter's fields, and the log of the times
\* at which session.get was called.
NewScraper ==
    [now |-> ConstructedAt, minute_start |-> ConstructedAt,
     requests_this_minute |-> 0, last_request_time |-> 0, issued |-> <<>>,
     success_count |-> 0, failure_count |-> 0, idles |-> 0]

\* A limiter whose counter is never reset.
RateLimitWaitNoReset(s) ==
    [s EXCEPT !.last_request_time = s.now,
              !.requests_this_minute = s.requests_this_minute + 1]

\* _rate_limit_wait(): time.sleep advances the clock.
RateLimitWait(s) ==
    LET elapsed == s.now - s.minute_start
        reset == IF elapsed >= Minute
                 THEN [s EXCEPT !.requests_this_minute = 0, !.minute_start = s.now]
                 ELSE s
        sleep_time == Minute - (reset.now - reset.minute_start)
        limited == IF reset.requests_this_minute >= RequestsPerMinute /\ sleep_time > 0
                   THEN [reset EXCEPT !.now = reset.now + sleep_time,
                                      !.minute_start = reset.now + sleep_time,
                                      !.requests_this_minute = 0]
                   ELSE reset
        time_since_last == limited.now - limited.last_request_time
        delayed == IF time_since_last < rate_limit
                   THEN [limited EXCEPT !.now = limited.now + (rate_limit - time_since_last)]
                   ELSE limited
    IN  [delayed EXCEPT !.last_request_time = delayed.now,
                        !.requests_this_minute = delayed.requests_this_minute + 1]

\* What session.get and raise_for_status make of a request: a response, an
\* HTTPError of status 403, an HTTPError of another status, or another
\* RequestException.
Responses == {"ok", "http_403", "http_404", "request_error"}

\* random.uniform(0, 1) in whole seconds.
Jitters == {0, 1}

NoRequest == [state |-> "idle", retries |-> 0, attempts |-> 0, after |-> <<>>]

RECURSIVE Pow2(_)
Pow2(n) == IF n = 0 THEN 1 ELSE 2 * Pow2(n - 1)

\* A retry test that lets one retry too many through.
MayRetryOnceMore(retries) == retries <= max_retries

\* 'retries < self.max_retries'
MayRetry(retries) == retries < max_retries

\* One execution of the body of _make_request(url, retries): the wait, the
\* request, and the except clause the response leads to. after lists what
\* each earlier attempt of this call ended with.
Attempt(s, retries, after, resp, jitter) ==
    LET get(waited) == [waited EXCEPT !.issued = Append(waited.issued, waited.now)]
        wait_time == Pow2(retries) + jitter
        retry == resp \in {"http_403", "request_error"} /\ MayRetry(retries)
        sleep(sent) == IF retry THEN [sent EXCEPT !.now = sent.now + wait_time] ELSE sent
    IN  [scraper |-> sleep(get(RateLimitWait(s))),
         request |-> [state |-> IF resp = "ok" THEN "returned"
                                ELSE IF retry THEN "retrying" ELSE "raised",
                      retries |-> IF retry THEN retries + 1 ELSE retries,
                      attempts |-> Len(after) + 1,
                      after |-> Append(after, resp)]]

\* A call _make_request(url).
MakeRequest(resp, jitter) ==
    /\ request.state # "retrying"
    /\ scraper.now < ConstructedAt + MaxTime
    /\ LET a == Attempt(scraper, 0, <<>>, resp, jitter)
       IN  scraper' = a.scraper /\ request' = a.request
    /\ UNCHANGED <<fam, pc, mem, disk, backup, op, ret, nops, html, loc, json_data,
                   profile, batch, folder, html_ret, scrape, saved>>

\* The recursive call _make_request(url, retries + 1) of an except clause.
Retry(resp, jitter) ==
    /\ request.state = "retrying"
    /\ LET a == Attempt(scraper, request.retries, request.after, resp, jitter)
       IN  scraper' = a.scraper /\ request' = a.request
    /\ UNCHANGED <<fam, pc, mem, disk, backup, op, ret, nops, html, loc, json_data,
                   profile, batch, folder, html_ret, scrape, saved>>

\* The caller spends d seconds between two requests.
Elapse(d) ==
    /\ request.state # "retrying"
    /\ scraper.idles < MaxIdles
    /\ scraper.now < ConstructedAt + MaxTime
    /\ scraper' = [scraper EXCEPT !.now = scraper.now + d, !.idles = scraper.idles + 1]
    /\ UNCHANGED <<fam, pc, mem, disk, backup, op, ret, nops, html, loc, json_data,
                   profile, batch, folder, html_ret, request, scrape, saved>>

----------------------------------------------------------------------------
(* ESPNFighterScraper: get_fighter_stats and scrape_fighters_batch *)

MaxNames == 2        \* names of a fighter list

\* Python's None.
None == [kind |-> "None"]

\* 'if value:' for None and for dicts.
Truthy(value) == value # None /\ DOMAIN value # {}

RECURSIVE RequestFrom(_, _, _, _)
\* A whole call _make_request(url) answered by resps in turn, from the
\* attempt with the given retries on.
RequestFrom(s, retries, after, resps) ==
    LET next(a) == IF a.request.state = "retrying"
                   THEN RequestFrom(a.scraper, a.request.retries, a.request.after, resps)
                   ELSE a
    IN  next(Attempt(s, retries, after, resps[Len(after) + 1], 0))

\* How the requests of one get_fighter_stats call are answered: the answers
\* to the search request, whether the search result holds an MMA player,
\* and the answers to the page request.
Answers == {<<"ok">>, <<"http_403", "ok">>, <<"http_404">>}

Fetches ==
    {[search |-> <<"http_404">>, player |-> FALSE, page |-> <<"ok">>]}
    \cup {[search |-> a, player |-> FALSE, page |-> <<"ok">>] :
             a \in {<<"ok">>, <<"http_403", "ok">>}}
    \cup {[search |-> a, player |-> TRUE, page |-> b] :
             a \in {<<"ok">>, <<"http_403", "ok">>}, b \in Answers}

\* search_fighter_url(fighter_name): the URL found or None; any exception is
\* caught.
SearchFighterUrl(s, fighter_name, fetch) ==
    LET parsed(r) == [scraper |-> r.scraper,
                      url |-> IF r.request.state = "raised" \/ ~fetch.player THEN None
                              ELSE [stats_url |-> fighter_name]]
    IN  parsed(RequestFrom(s, 0, <<>>, fetch.search))

\* fighter_name.replace(' ', '_'), the stem of the page's file.
FileStem(fighter_name) ==
    [i \in 1..Len(fighter_name) |-> IF fighter_name[i] = " " THEN "_" ELSE fighter_name[i]]

\* open(file_path, 'w') raises when the stem names a sub-folder, there
\* being none in FighterHTMLs.
OpenRaises(fighter_name) == \E i \in 1..Len(fighter_name) : fighter_name[i] = "/"

\* The text of the page a successful page request returns.
ResponseText == "new content"

\* A get_fighter_stats that opens the page's file before it requests the page.
GetFighterStatsOpenFirst(s, files, fighter_name, fetch) ==
    LET fetched(found, page) ==
            LET ok == found.url # None /\ page.request.state = "returned"
                       /\ ~OpenRaises(fighter_name)
                opened == IF found.url # None /\ ~OpenRaises(fighter_name)
                          THEN (FileStem(fighter_name) :>
                                   (IF page.request.state = "returned"
                                    THEN ResponseText ELSE ""))
                               @@ files
                          ELSE files
            IN  [scraper |-> IF found.url = None THEN found.scraper ELSE page.scraper,
                 files |-> opened,
                 ret |-> IF ok THEN [name |-> fighter_name, url |-> found.url,
                                     scraped_at |-> page.scraper.now,
                                     fight_stats |-> EmptyDict, fight_history |-> <<>>,
                                     html_file |-> FileStem(fighter_name)]
                         ELSE None]
        searched(found) == fetched(found, RequestFrom(found.scraper, 0, <<>>, fetch.page))
    IN  searched(SearchFighterUrl(s, fighter_name, fetch))

\* get_fighter_stats(fighter_name) on the scraper s and the folder files:
\* the scraper and the folder afterwards and what is returned. The page
\* model has no tables, so fight_stats and fight_history come out empty.
GetFighterStats(s, files, fighter_name, fetch) ==
    LET failed(t) == [t EXCEPT !.failure_count = t.failure_count + 1]
        fetched(url, page) ==
            IF page.request.state = "raised" \/ OpenRaises(fighter_name)
            THEN [scraper |-> failed(page.scraper), files |-> files, ret |-> None]
            ELSE [scraper |-> [page.scraper EXCEPT
                                  !.success_count = page.scraper.success_count + 1],
                  files |-> (FileStem(fighter_name) :> ResponseText) @@ files,
                  ret |-> [name |-> fighter_name, url |-> url,
                           scraped_at |-> page.scraper.now,
                           fight_stats |-> EmptyDict, fight_history |-> <<>>,
                           html_file |-> FileStem(fighter_name)]]
        searched(found) ==
            IF found.url = None
            THEN [scraper |-> failed(found.scraper), files |-> files, ret |-> None]
            ELSE fetched(found.url, RequestFrom(found.scraper, 0, <<>>, fetch.page))
    IN  searched(SearchFighterUrl(s, fighter_name, fetch))

\* The entry appended for a name whose get_fighter_stats returned nothing.
ErrorEntry(fighter_name) ==
    [name |-> fighter_name, error |-> "Could not find fighter URL"]

\* A loop body that appends nothing for a name that failed.
EntryOrNothing(fighter_name, fighter_stats) ==
    IF Truthy(fighter_stats) THEN <<fighter_stats>> ELSE <<>>

\* 'if fighter_stats: results.append(...) else: results.append({...})'
Entry(fighter_name, fighter_stats) ==
    IF Truthy(fighter_stats) THEN <<fighter_stats>> ELSE <<ErrorEntry(fighter_name)>>

NoScrape ==
    [state |-> "idle", fighter_names |-> <<>>, results |-> <<>>, callbacks |-> <<>>,
     files |-> NoFolder, log |-> <<>>, records |-> EmptyDict]

\* One turn of the loop of scrape_fighters_batch, with the progress callback
\* scrape_fighter_data passes. log keeps, for each turn, how the requests
\* were answered, what get_fighter_stats returned and the folder before
\* and after.
ScrapeFightersBatchStep(fetch) ==
    /\ scrape.state = "scraping"
    /\ Len(scrape.log) < Len(scrape.fighter_names)
    /\ LET i == Len(scrape.log)
           fighter_name == scrape.fighter_names[i + 1]
           turn(g) ==
               /\ scraper' = g.scraper
               /\ scrape' = [scrape EXCEPT
                      !.results = scrape.results \o Entry(fighter_name, g.ret),
                      !.callbacks = Append(scrape.callbacks,
                                           <<i + 1, Len(scrape.fighter_names),
                                             fighter_name>>),
                      !.files = g.files,
                      !.log = Append(scrape.log,
                                     [fetch |-> fetch, ret |-> g.ret,
                                      before |-> scrape.files, after |-> g.files])]
       IN  turn(GetFighterStats(scraper, scrape.files, fighter_name, fetch))
    /\ UNCHANGED <<fam, pc, mem, disk, backup, op, ret, nops, html, loc, json_data,
                   profile, batch, folder, html_ret, request, saved>>

\* The columns of the clinch, ground and striking records after the five
\* leading ones, each with the key of fighter_data it is read from.
StatColumns(f) ==
    CASE f = "clinch" ->
            <<<<"SCBL", "SCBL">>, <<"SCBA", "SCBA">>, <<"SCHL", "SCHL">>,
              <<"SCHA", "SCHA">>, <<"SCLL", "SCLL">>, <<"SCLA", "SCLA">>,
              <<"RV", "RV">>, <<"SR", "SR">>, <<"TDL", "TDL">>, <<"TDA", "TDA">>,
              <<"TDS", "TDS">>, <<"TK ACC", "TK_ACC">>>>
      [] f = "ground" ->
            <<<<"SGBL", "SGBL">>, <<"SGBA", "SGBA">>, <<"SGHL", "SGHL">>,
              <<"SGHA", "SGHA">>, <<"SGLL", "SGLL">>, <<"SGLA", "SGLA">>,
              <<"AD", "AD">>, <<"ADHG", "ADHG">>, <<"ADTB", "ADTB">>,
              <<"ADTM", "ADTM">>, <<"ADTS", "ADTS">>, <<"SM", "SM">>>>
      [] f = "striking" ->
            <<<<"SDBL/A", "SDBL_A">>, <<"SDHL/A", "SDHL_A">>, <<"SDLL/A", "SDLL_A">>,
              <<"TSL", "TSL">>, <<"TSA", "TSA">>, <<"SSL", "SSL">>, <<"SSA", "SSA">>,
              <<"TSL-TSA", "TSL_TSA">>, <<"KD", "KD">>, <<"%BODY", "BODY_PCT">>,
              <<"%HEAD", "HEAD_PCT">>, <<"%LEG", "LEG_PCT">>>>

\* 'fighter_name = fighter_data.get('fighter_name', '')': the key read.
NameKey == "fighter_name"

\* The record scrape_fighter_data makes of fighter_data for family f; the
\* empty string is <<>>, names being sequences of characters.
ScrapedRecord(f, fighter_data, now) ==
    LET fighter_name == Get(fighter_data, NameKey, <<>>)
        scraped_at == Get(fighter_data, "scraped_at", "")
    IN  IF f = "profiles"
        THEN ("Fighter Name" :> fighter_name)
             @@ ("ESPN URL" :> Get(fighter_data, "espn_url", ""))
             @@ ("Scraped At" :> scraped_at)
             @@ ("Total Fights" :> Len(Get(fighter_data, "fight_history", <<>>)))
             @@ ("Last Updated" :> now)
        ELSE [Player |-> fighter_name, Date |-> scraped_at, Opponent |-> "N/A",
              Event |-> "ESPN Scraped", Result |-> "N/A"]
             @@ [c \in {StatColumns(f)[k][1] : k \in 1..Len(StatColumns(f))} |->
                    Get(fighter_data,
                        StatColumns(f)[CHOOSE k \in 1..Len(StatColumns(f)) :
                                           StatColumns(f)[k][1] = c][2],
                        "-")]

\* The loop over scraped_data: entries with an 'error' key are skipped.
ScrapedRecords(f, scraped_data, now) ==
    LET kept == SelectSeq(scraped_data,
                          LAMBDA d : Truthy(d) /\ "error" \notin DOMAIN d)
    IN  [k \in 1..Len(kept) |-> ScrapedRecord(f, kept[k], now)]

\* scrape_fighter_data(fighter_names) once scrape_fighters_batch has
\* returned: the four DataFrames made of its results.
ScrapeFighterData ==
    /\ scrape.state = "scraping"
    /\ Len(scrape.log) = Len(scrape.fighter_names)
    /\ scrape' = [scrape EXCEPT
           !.state = "returned",
           !.records = [f \in Families |->
                           DataFrame(ScrapedRecords(f, scrape.results, scraper.now))]]
    /\ UNCHANGED <<fam, pc, mem, disk, backup, op, ret, nops, html, loc, json_data,
                   profile, batch, folder, html_ret, scraper, request, saved>>

\* The lists of names scraped and the folders they are scraped into.
FighterLists == UNION {[1..n -> FighterNames] : n \in 0..MaxNames}

StoredPages ==
    {NoFolder, [stem \in {FileStem(n) : n \in FighterNames} |-> "old content"]}

----------------------------------------------------------------------------
(* ESPNDataProcessor: save_data and get_data_summary *)

\* The table files in the order _create_backup copies them and save_data
\* writes them (fighters_name.csv, which belongs to no table family, left
\* out).
SaveOrder == LoadOrder

\* The backup folder _create_backup leaves: the files that exist among the
\* first copied ones of its list, an exception ending the loop.
BackupFolder(files, copied) ==
    [f \in {SaveOrder[j] : j \in {k \in 1..copied : files[SaveOrder[k]].exists}} |->
        files[f]]

\* The table files after the to_csv calls of save_data: a frame that is not
\* empty is written over its file; the first to_csv that raises ends the
\* try block, written counting the files reached before it.
WrittenFiles(files, tables, written) ==
    [f \in Families |->
        IF /\ \E j \in 1..written : SaveOrder[j] = f
           /\ ~IsEmpty(tables[LoadAttr(f)])
        THEN ToCsv(tables[LoadAttr(f)])
        ELSE files[f]]

\* A save_data that takes the backup after it has written the files.
SaveDataWriteFirst(files, tables, copied, written) ==
    [files |-> WrittenFiles(files, tables, written),
     backup_folder |-> BackupFolder(WrittenFiles(files, tables, written), copied),
     raised |-> FALSE]

\* save_data(): _create_backup(), which catches its own exceptions, and then
\* the writes; every exception is caught.
SaveDataOutcome(files, tables, copied, written) ==
    [files |-> WrittenFiles(files, tables, written),
     backup_folder |-> BackupFolder(files, copied),
     raised |-> FALSE]

NoSave ==
    [state |-> "idle", before |-> [f \in Families |-> Absent], tables |-> EmptyDict,
     backup_folder |-> EmptyDict, copied |-> 0, written |-> 0, raised |-> FALSE,
     summary |-> EmptyDict]

SaveData(copied, written) ==
    /\ pc = "ready" /\ saved.state = "idle"
    /\ LET s == SaveDataOutcome(disk, mem, copied, written)
       IN  /\ disk' = s.files
           /\ saved' = [NoSave EXCEPT !.state = "saved", !.before = disk,
                                      !.tables = mem,
                                      !.backup_folder = s.backup_folder,
                                      !.copied = copied, !.written = written,
                                      !.raised = s.raised]
    /\ UNCHANGED <<fam, pc, mem, backup, op, ret, nops, html, loc, json_data,
                   profile, batch, folder, html_ret, scraper, request, scrape>>

\* get_data_summary(), as run_full_processing calls it after save_data.
GetDataSummary ==
    /\ saved.state = "saved"
    /\ saved' = [saved EXCEPT !.state = "summarised",
                              !.summary = [f \in Families |->
                                              Len(mem[LoadAttr(f)].rows)]]
    /\ UNCHANGED <<fam, pc, mem, disk, backup, op, ret, nops, html, loc, json_data,
                   profile, batch, folder, html_ret, scraper, request, scrape>>

\* Table files of earlier runs, among them one adopted from rows without a
\* key column.
SavedFiles(f) ==
    InitFiles(f) \cup
        {ToCsv(DataFrame(<<IF f \in FightFamilies THEN FightRowNoOpponent
                           ELSE ScrapedProfileRow>>))}

\* The tables upserted before a save: none, rows with and without the key
\* columns.
SaveIncoming(f) ==
    IF f \in FightFamilies
    THEN {EmptyDF, DataFrame(<<FightRow("A", "Y", "s1")>>),
          DataFrame(<<[FightRowNoOpponent EXCEPT !.Stat = "s2"]>>),
          DataFrame(<<FightRow("A", "X", "s2"), FightRow("C", "X", "s1")>>)}
    ELSE {EmptyDF, DataFrame(<<ProfileRow("C", "r1")>>),
          DataFrame(<<ScrapedProfileRow>>),
          DataFrame(<<ProfileRow("A", "r2"), ProfileRow("C", "r1")>>)}

\* The file of a family the behaviour does not upsert into.
OtherFile(f) == ToCsv(DataFrame(<<IF f \in FightFamilies THEN FightRow("B", "X", "s1")
                                  ELSE ProfileRow("B", "r1")>>))

----------------------------------------------------------------------------
(* The merge store as a state machine *)

Init ==
    /\ fam \in Families
    /\ pc = "new"
    /\ mem = [a \in Attrs |-> EmptyDF]
    /\ \E fl \in InitFiles(fam) :
        disk = [f \in Families |-> IF f = fam THEN fl ELSE Absent]
    /\ backup = Absent
    /\ op = NoOp
    /\ ret = EmptyDF
    /\ nops = 0
    /\ html = <<>>
    /\ loc = Idle
    /\ json_data = EmptyDict
    /\ profile = NoProfile
    /\ batch = NoBatch
    /\ folder = NoFolder
    /\ html_ret = NoCall
    /\ scraper = NewScraper
    /\ request = NoRequest
    /\ scrape = NoScrape
    /\ saved = NoSave

Next ==
    \/ Construct
    \/ \E new_df \in Incoming(fam) : Upsert(fam, new_df)
    \/ ProcessFightData(fam)
    \/ \E new_df \in Extracted : fam = "profiles" /\ ProcessFighterProfiles(new_df)
    \/ \E new_df \in V2Extracted(fam) : V2Process(fam, new_df)

Spec == Init /\ [][Next]_vars

----------------------------------------------------------------------------
(* The locator run on one page *)

InitLocator ==
    /\ html \in Pages
    /\ loc = Idle
    /\ json_data = EmptyDict
    /\ profile = NoProfile
    /\ batch = NoBatch
    /\ folder = NoFolder
    /\ html_ret = NoCall
    /\ scraper = NewScraper
    /\ request = NoRequest
    /\ scrape = NoScrape
    /\ saved = NoSave
    /\ fam = "clinch"
    /\ pc = "new"
    /\ mem = [a \in Attrs |-> EmptyDF]
    /\ disk = [f \in Families |-> Absent]
    /\ backup = Absent
    /\ op = NoOp
    /\ ret = EmptyDF
    /\ nops = 0

NextLocator == ExtractJson

SpecLocator == InitLocator /\ [][NextLocator]_vars

----------------------------------------------------------------------------
(* The record mappers run on one parsed tree *)

InitMapper ==
    /\ json_data \in Trees
    /\ profile = NoProfile
    /\ batch = NoBatch
    /\ folder = NoFolder
    /\ html_ret = NoCall
    /\ scraper = NewScraper
    /\ request = NoRequest
    /\ scrape = NoScrape
    /\ saved = NoSave
    /\ html = <<>>
    /\ loc = Idle
    /\ fam = "clinch"
    /\ pc = "new"
    /\ mem = [a \in Attrs |-> EmptyDF]
    /\ disk = [f \in Families |-> Absent]
    /\ backup = Absent
    /\ op = NoOp
    /\ ret = EmptyDF
    /\ nops = 0

NextMapper == A1Profile \/ PlyrHdrProfile

SpecMapper == InitMapper /\ [][NextMapper]_vars

----------------------------------------------------------------------------
(* A batch run *)

InitBatch ==
    /\ \E by \in {"a1", "plyrHdr"} :
       \E fighters \in UNION {[1..n -> BatchPages] : n \in 0..MaxFighters} :
          /\ by = "plyrHdr" => \A i \in 1..Len(fighters) : fighters[i].exists
          /\ batch = [by |-> by, fighters |-> fighters, i |-> 0, all_data |-> <<>>,
                      state |-> "running"]
    /\ json_data = EmptyDict
    /\ profile = NoProfile
    /\ folder = NoFolder
    /\ html_ret = NoCall
    /\ scraper = NewScraper
    /\ request = NoRequest
    /\ scrape = NoScrape
    /\ saved = NoSave
    /\ html = <<>>
    /\ loc = Idle
    /\ fam = "clinch"
    /\ pc = "new"
    /\ mem = [a \in Attrs |-> EmptyDF]
    /\ disk = [f \in Families |-> Absent]
    /\ backup = Absent
    /\ op = NoOp
    /\ ret = EmptyDF
    /\ nops = 0

NextBatch == A1BatchStep \/ A1BatchReturn \/ PlyrHdrBatchStep \/ PlyrHdrBatchReturn

SpecBatch == InitBatch /\ [][NextBatch]_vars

----------------------------------------------------------------------------
(* One call of upsert_html_files *)

InitPages ==
    /\ folder \in Folders
    /\ html_ret = NoCall
    /\ scraper = NewScraper
    /\ request = NoRequest
    /\ scrape = NoScrape
    /\ saved = NoSave
    /\ batch = NoBatch
    /\ json_data = EmptyDict
    /\ profile = NoProfile
    /\ html = <<>>
    /\ loc = Idle
    /\ fam = "clinch"
    /\ pc = "new"
    /\ mem = [a \in Attrs |-> EmptyDF]
    /\ disk = [f \in Families |-> Absent]
    /\ backup = Absent
    /\ op = NoOp
    /\ ret = EmptyDF
    /\ nops = 0

NextPages ==
    \/ \E new_html_files \in NewHtmlFiles : UpsertHtmlFiles(new_html_files)
    \/ \E new_html_files \in NewHtmlFiles : ProcessFighterHtmls(new_html_files)

SpecPages == InitPages /\ [][NextPages]_vars

----------------------------------------------------------------------------
(* The scraper issuing requests that are all answered *)

InitScraper ==
    /\ scraper = NewScraper
    /\ request = NoRequest
    /\ scrape = NoScrape
    /\ saved = NoSave
    /\ html = <<>>
    /\ loc = Idle
    /\ json_data = EmptyDict
    /\ profile = NoProfile
    /\ batch = NoBatch
    /\ folder = NoFolder
    /\ html_ret = NoCall
    /\ fam = "clinch"
    /\ pc = "new"
    /\ mem = [a \in Attrs |-> EmptyDF]
    /\ disk = [f \in Families |-> Absent]
    /\ backup = Absent
    /\ op = NoOp
    /\ ret = EmptyDF
    /\ nops = 0

NextRateLimit ==
    \/ MakeRequest("ok", 0)
    \/ \E d \in 1..MaxElapse : Elapse(d)

SpecRateLimit == InitScraper /\ [][NextRateLimit]_vars

----------------------------------------------------------------------------
(* One _make_request call, answered in every way *)

NextRequest ==
    \/ \E resp \in Responses, jitter \in Jitters :
          request.state = "idle" /\ MakeRequest(resp, jitter)
    \/ \E resp \in Responses, jitter \in Jitters : Retry(resp, jitter)

SpecRequest == InitScraper /\ [][NextRequest]_vars /\ WF_vars(NextRequest)

----------------------------------------------------------------------------
(* One scrape_fighter_data run *)

InitScrape ==
    /\ scraper = NewScraper
    /\ request = NoRequest
    /\ \E fighter_names \in FighterLists, files \in StoredPages :
          scrape = [NoScrape EXCEPT !.state = "scraping",
                                    !.fighter_names = fighter_names,
                                    !.files = files]
    /\ saved = NoSave
    /\ html = <<>>
    /\ loc = Idle
    /\ json_data = EmptyDict
    /\ profile = NoProfile
    /\ batch = NoBatch
    /\ folder = NoFolder
    /\ html_ret = NoCall
    /\ fam = "clinch"
    /\ pc = "new"
    /\ mem = [a \in Attrs |-> EmptyDF]
    /\ disk = [f \in Families |-> Absent]
    /\ backup = Absent
    /\ op = NoOp
    /\ ret = EmptyDF
    /\ nops = 0

NextScrape ==
    \/ \E fetch \in Fetches : ScrapeFightersBatchStep(fetch)
    \/ ScrapeFighterData

SpecScrape == InitScrape /\ [][NextScrape]_vars

----------------------------------------------------------------------------
(* Construction, an upsert, save_data and the summary *)

InitSave ==
    /\ fam \in Families
    /\ pc = "new"
    /\ mem = [a \in Attrs |-> EmptyDF]
    /\ \E fl \in SavedFiles(fam), others \in BOOLEAN :
        disk = [f \in Families |->
                   IF f = fam THEN fl ELSE IF others THEN OtherFile(f) ELSE Absent]
    /\ backup = Absent
    /\ op = NoOp
    /\ ret = EmptyDF
    /\ nops = 0
    /\ html = <<>>
    /\ loc = Idle
    /\ json_data = EmptyDict
    /\ profile = NoProfile
    /\ batch = NoBatch
    /\ folder = NoFolder
    /\ html_ret = NoCall
    /\ scraper = NewScraper
    /\ request = NoRequest
    /\ scrape = NoScrape
    /\ saved = NoSave

NextSave ==
    \/ pc = "new" /\ Construct
    \/ \E new_df \in SaveIncoming(fam) : saved.state = "idle" /\ Upsert(fam, new_df)
    \/ \E copied, written \in 0..Len(SaveOrder) : SaveData(copied, written)
    \/ GetDataSummary

SpecSave == InitSave /\ [][NextSave]_vars

----------------------------------------------------------------------------
(* Properties of the merge store *)

\* The operations that run ESPNDataProcessor._upsert_data.
UpsertOps == {"upsert", "process_fight_data", "process_fighter_profiles"}

AllUpsertOps == UpsertOps \cup {"v2_upsert"}

\* The key columns the implementation behind the last operation uses.
OpKey == IF op.name = "v2_upsert" THEN V2CompositeKey(op.f) ELSE CompositeKey(op.f)

Rows(df) == 1..Len(df.rows)

Malformed(r, key) == \E c \in KeySet(key) : Cell(r, c) = NaN

SameKey(r1, r2, key) ==
    /\ ~Malformed(r1, key) /\ ~Malformed(r2, key)
    /\ KeyOf(r1, key) = KeyOf(r2, key)

\* Row i of df occurs in other, cell by cell on df's columns.
RowIn(df, i, other) ==
    \E k \in Rows(other) : \A c \in df.cols : Cell(other.rows[k], c) = df.rows[i][c]

\* C1: merging an empty incoming table returns the persisted table T of the
\* family, rows and order unchanged, and leaves the in-memory table as it was.
C1_EmptyIncomingReturnsT ==
    /\ (op.name \in UpsertOps /\ IsEmpty(op.new)) =>
          /\ ret = mem[LoadAttr(op.f)]
          /\ mem[UpsertAttr(op.f)] = op.existing
    /\ (op.name = "v2_upsert" /\ IsEmpty(op.new)) => ret = op.existing

FileKeepsRows(old, new) ==
    old.exists =>
        /\ new.exists
        /\ \A i \in Rows(old.table) : RowIn(old.table, i, new.table)

\* C2: a processing run (process_fight_data, process_fighter_profiles) leaves
\* every row of the family's table file in the file.
C2_RunNeverTruncates ==
    [][(nops' = nops + 1 /\ op'.name \in {"process_fight_data", "process_fighter_profiles"})
          => FileKeepsRows(disk[op'.f], disk'[op'.f])]_vars

\* C3: after upserts that start from an empty table (a family with no table
\* file), no two rows of the in-memory table have the same composite key.
C3_UniqueKeys ==
    \A f \in Families :
        ~disk[f].exists =>
            LET t == mem[UpsertAttr(f)]
            IN  \A i, j \in Rows(t) :
                    i # j => ~SameKey(t.rows[i], t.rows[j], CompositeKey(f))

\* C4: when an incoming row has the key of an existing row, every row of the
\* merged table with that key is an existing row (first-seen-wins), in
\* ESPNDataProcessor and in the V2 scraper alike.
C4_ExistingRowWins ==
    (op.name \in AllUpsertOps /\ ~IsEmpty(op.existing) /\ ~IsEmpty(op.new)) =>
        \A i \in Rows(op.existing), j \in Rows(op.new) :
            SameKey(op.existing.rows[i], op.new.rows[j], OpKey) =>
                /\ \E k \in Rows(ret) : SameKey(ret.rows[k], op.existing.rows[i], OpKey)
                /\ \A k \in Rows(ret) :
                      SameKey(ret.rows[k], op.existing.rows[i], OpKey) =>
                          \E e \in Rows(op.existing) :
                              \A c \in op.existing.cols :
                                  ret.rows[k][c] = op.existing.rows[e][c]

\* C5: merging is idempotent: with T the table before an upsert of R and
\* upsert(T, R) its result, upsert(T, upsert(T, R)) = upsert(T, R), and
\* merging R a second time into the merged table changes nothing.
C5_Idempotent ==
    op.name \in UpsertOps =>
        /\ UpsertData(op.existing, ret, op.f).ret = ret
        /\ UpsertData(ret, op.new, op.f).ret = ret

\* C6: with an empty existing table and a non-empty incoming table R of
\* pairwise distinct keys, the result is R and R becomes the family's
\* in-memory table (the attribute <family>_data).
C6_EmptyBaseAdoption ==
    (/\ op.name \in UpsertOps
     /\ IsEmpty(op.existing) /\ ~IsEmpty(op.new)
     /\ DistinctKeys(op.new, OpKey)) =>
        /\ ret = op.new
        /\ mem[UpsertAttr(op.f)] = op.new

C6_Witness ==
    /\ op.name = "upsert"
    /\ IsEmpty(op.existing) /\ Len(op.new.rows) = 2
    /\ DistinctKeys(op.new, OpKey)
    /\ ret = op.new /\ mem[UpsertAttr(op.f)] = op.new

BothNonEmpty ==
    op.name \in UpsertOps /\ ~IsEmpty(op.existing) /\ ~IsEmpty(op.new)

ExistingKeys == {KeyOf(op.existing.rows[i], OpKey) : i \in Rows(op.existing)}

UnseenIncoming ==
    [cols |-> op.new.cols,
     rows |-> SelectSeq(op.new.rows, LAMBDA r : KeyOf(r, OpKey) \notin ExistingKeys)]

FirstOccurrences(all) ==
    {i \in Rows(all) :
        \A j \in 1..(i - 1) : KeyOf(all.rows[j], OpKey) # KeyOf(all.rows[i], OpKey)}

Nth(S, n) == CHOOSE i \in S : Cardinality({j \in S : j <= i}) = n

C8_MalformedRowSkipped ==
    (/\ op.name \in UpsertOps
     /\ \A i \in Rows(op.existing) : ~Malformed(op.existing.rows[i], OpKey)) =>
        \A j \in Rows(op.new) :
            IF Malformed(op.new.rows[j], OpKey)
            THEN \A k \in Rows(ret) : ~Malformed(ret.rows[k], OpKey)
            ELSE KeyOf(op.new.rows[j], OpKey) \notin ExistingKeys =>
                    \E k \in Rows(ret) :
                        \A c \in op.new.cols : Cell(ret.rows[k], c) = op.new.rows[j][c]

----------------------------------------------------------------------------
(* Properties of the locator *)

RECURSIVE LexFrom(_, _, _, _, _, _)
\* JSON lexing of s from position i on: the brace depth outside string
\* literals, a backslash escaping the next character inside a literal only.
\* zeros collects the positions after which the depth is zero.
LexFrom(s, i, depth, in_string, escaped, zeros) ==
    IF i > Len(s) THEN [depth |-> depth, in_string |-> in_string, zeros |-> zeros]
    ELSE IF escaped THEN LexFrom(s, i + 1, depth, in_string, FALSE, zeros)
    ELSE IF in_string
    THEN LexFrom(s, i + 1, depth, s[i] # "\"", s[i] = "\\", zeros)
    ELSE IF s[i] = "\"" THEN LexFrom(s, i + 1, depth, TRUE, FALSE, zeros)
    ELSE IF s[i] = "{" THEN LexFrom(s, i + 1, depth + 1, FALSE, FALSE, zeros)
    ELSE IF s[i] = "}"
    THEN LexFrom(s, i + 1, depth - 1, FALSE, FALSE,
                 IF depth - 1 = 0 THEN zeros \cup {i} ELSE zeros)
    ELSE LexFrom(s, i + 1, depth, FALSE, FALSE, zeros)

BalancedSpan(s) ==
    /\ s # <<>> /\ s[1] = "{" /\ s[Len(s)] = "}"
    /\ LET lex == LexFrom(s, 1, 0, FALSE, FALSE, {})
       IN  lex.depth = 0 /\ ~lex.in_string /\ lex.zeros = {Len(s)}

\* C9: _extract_json_from_html either reports failure or has cut out a
\* substring that starts with '{', ends with '}' and whose braces outside
\* string literals are balanced, the depth reaching zero at its last
\* character only.
C9_SpanBalancedOrFailure ==
    loc.cause # "idle" => (loc.ret = "None" \/ BalancedSpan(loc.span))

\* What the caller of _extract_json_from_html can see of an outcome.
Observable(o) == <<o.ret, o.printed>>

\* C10: when the key is present and the scan ends with a non-zero depth, the
\* caller sees an outcome that differs from the one for an absent key, and
\* no span is returned.
C10_UnbalancedIsDistinct ==
    loc.cause = "unbalanced" =>
        /\ loc.ret = "None"
        /\ Observable(loc) # Observable(ExtractJsonFromHtml(<<>>))

\* The syntactically valid object that follows the key in the page, <<>>
\* when the key is absent or what follows it is not one.
ValidObject ==
    LET start_pos == StartPos(html)
        e == IF start_pos = 0 THEN 0 ELSE JValue(html, start_pos)
    IN  IF e = 0 THEN <<>> ELSE SubSeq(html, start_pos, e - 1)

\* C11: on a page with a syntactically valid object after the key, the span
\* cut out is exactly that object and the normalized text decodes to the
\* value the object itself decodes to.
C11_ValidObjectLocatedAndPreserved ==
    (loc.cause # "idle" /\ ValidObject # <<>>) =>
        /\ loc.span = ValidObject
        /\ loc.tree = JsonTree(ValidObject)

RECURSIVE WithoutTrailingCommas(_, _, _)
\* s from position i on without the commas that, outside string literals,
\* are followed (whitespace apart) by a closing '}' or ']'.
WithoutTrailingCommas(s, i, in_string) ==
    IF i > Len(s) THEN <<>>
    ELSE IF in_string /\ s[i] = "\\" /\ i < Len(s)
    THEN <<s[i], s[i + 1]>> \o WithoutTrailingCommas(s, i + 2, TRUE)
    ELSE IF s[i] = "\"" THEN <<s[i]>> \o WithoutTrailingCommas(s, i + 1, ~in_string)
    ELSE IF ~in_string /\ s[i] = "," /\ SkipWs(s, i + 1) <= Len(s)
            /\ s[SkipWs(s, i + 1)] \in {"}", "]"}
    THEN WithoutTrailingCommas(s, i + 1, FALSE)
    ELSE <<s[i]>> \o WithoutTrailingCommas(s, i + 1, in_string)

\* What follows the key in the page is an object that is valid once its
\* trailing commas are taken out, and holds no '/' (no comment to strip).
OnlyTrailingCommas ==
    LET start_pos == StartPos(html)
        rest == SubSeq(html, start_pos, Len(html))
    IN  /\ start_pos # 0
        /\ JValue(WithoutTrailingCommas(rest, 1, FALSE), 1) # 0
        /\ \A i \in 1..Len(html) : html[i] # "/"

\* C21: an object after the key whose only non-conformance is a trailing
\* comma before a closing '}' or a closing ']' (whitespace between them
\* allowed) is normalized into a text that parses: the locator returns the
\* decoded object.
C21_TrailingCommasRemoved ==
    (loc.cause # "idle" /\ OnlyTrailingCommas) => loc.cause = "ok"

----------------------------------------------------------------------------
(* Properties of the A1 record mapper *)

A1Ran == profile.by = "a1" /\ profile.outcome = "ok"

\* eventsMap of the tree, in the order the page gives it.
EventsGiven == Get(json_data, "eventsMap", <<>>)

DateGiven(i) == Get(EventsGiven[i], "gameDate", "")

ResultGiven(i) == Get(EventsGiven[i], "gameResult", "")

TitleGiven(i) == Get(EventsGiven[i], "titleFight", FALSE)

MostRecentFirst ==
    \A i, j \in 1..Len(EventsGiven) :
        i < j => DateRank(DateGiven(i)) >= DateRank(DateGiven(j))

\* The length of the longest prefix of the history whose results are all 'W'.
LeadingWins ==
    Cardinality({n \in 1..Len(EventsGiven) : \A m \in 1..n : ResultGiven(m) = "W"})

\* C12: for a history given most-recent-first the win streak is the length
\* of the longest all-'W' prefix; any other result ends the count.
C12_WinStreakIsLeadingWins ==
    (A1Ran /\ MostRecentFirst) => profile.row["Fight Win Streak"] = LeadingWins

\* The history [W, W, L, W] and its streak 2.
C12_Witness ==
    /\ A1Ran /\ MostRecentFirst
    /\ [i \in 1..Len(EventsGiven) |-> ResultGiven(i)] = <<"W", "W", "L", "W">>
    /\ profile.row["Fight Win Streak"] = 2

\* C13: Title Defenses is the number of title-flagged fights within the
\* leading run of wins, and Former Champion holds exactly when it is not 0.
C13_TitleDefensesWithinStreak ==
    (A1Ran /\ MostRecentFirst) =>
        /\ profile.row["Title Defenses"] =
              Cardinality({n \in 1..LeadingWins : TitleGiven(n)})
        /\ profile.row["Title Defenses"] <= profile.row["Fight Win Streak"]
        /\ profile.row["Former Champion"] <=> profile.row["Title Defenses"] > 0

\* A title win after the first non-win, which is not counted.
C13_Witness ==
    /\ A1Ran /\ MostRecentFirst
    /\ Len(EventsGiven) = 4 /\ LeadingWins = 2
    /\ TitleGiven(1) /\ ~TitleGiven(2) /\ ResultGiven(4) = "W" /\ TitleGiven(4)
    /\ profile.row["Title Defenses"] = 1 /\ profile.row["Former Champion"]

Max(a, b) == IF a >= b THEN a ELSE b

\* C14: the decision-win count is max(0, total wins - KO wins - submission
\* wins), so never negative.
C14_DecisionWinsClamped ==
    (A1Ran /\ HasHyphen(profile.row["Division Record"])) =>
        /\ profile.row["Wins by Decision"] =
              Max(0, ParseInt(profile.row["Division Record"][1])
                     - profile.row["Wins by Knockout"]
                     - profile.row["Wins by Submission"])
        /\ profile.row["Wins by Decision"] >= 0

\* The place of the entry given j-th among the fights, newest first, entries
\* of one date in the order given.
PlaceOf(j) ==
    1 + Cardinality({k \in 1..Len(EventsGiven) :
            \/ DateRank(DateGiven(k)) > DateRank(DateGiven(j))
            \/ DateRank(DateGiven(k)) = DateRank(DateGiven(j)) /\ k < j})

EventKeys(row) == {k \in DOMAIN row : \E n \in 0..9 : \E f \in SlotFields : k = SlotKey(n, f)}

\* C15: whatever the length of the history the row has exactly the slot
\* groups Event_1_*, Event_2_*, Event_3_*; slot i holds the i-th most recent
\* fight when there is one and five empty strings otherwise.
C15_ExactlyThreeSlots ==
    A1Ran =>
        /\ EventKeys(profile.row) = {SlotKey(n, f) : n \in 1..3, f \in SlotFields}
        /\ \A n \in 1..3 :
              IF n <= Len(EventsGiven)
              THEN \E j \in 1..Len(EventsGiven) :
                      /\ PlaceOf(j) = n
                      /\ \A f \in SlotFields :
                            profile.row[SlotKey(n, f)] = SlotValue(Fight(EventsGiven[j]), f)
              ELSE \A f \in SlotFields : profile.row[SlotKey(n, f)] = ""

\* One fight: slot 1 holds it, slots 2 and 3 are empty.
C15_Witness ==
    /\ A1Ran /\ Len(EventsGiven) = 1
    /\ profile.row["Event_1_Headline"] = "at d1"
    /\ profile.row["Event_2_Headline"] = "" /\ profile.row["Event_3_Method"] = ""

\* The entries of eventsMap in the order of their places, newest first.
NewestFirst ==
    [n \in 1..Len(EventsGiven) |->
        EventsGiven[CHOOSE j \in 1..Len(EventsGiven) : PlaceOf(j) = n]]

\* The length of the longest prefix of NewestFirst whose results are all 'W'.
LeadingWinsNewestFirst ==
    Cardinality({n \in 1..Len(NewestFirst) :
                    \A m \in 1..n : Get(NewestFirst[m], "gameResult", "") = "W"})

\* C22: whatever the order of the entries of eventsMap, the fight history is
\* ordered by date non-increasing, and the win streak, the title defenses
\* and the Event_1..3 groups are those of that ordering, Event_1 being the
\* fight of the greatest date.
C22_AggregatesOverNewestFirst ==
    A1Ran =>
        /\ FightHistory(json_data) = [n \in 1..Len(NewestFirst) |-> Fight(NewestFirst[n])]
        /\ \A i, j \in 1..Len(NewestFirst) :
              i < j => DateRank(Get(NewestFirst[i], "gameDate", ""))
                          >= DateRank(Get(NewestFirst[j], "gameDate", ""))
        /\ profile.row["Fight Win Streak"] = LeadingWinsNewestFirst
        /\ profile.row["Title Defenses"] =
              Cardinality({n \in 1..LeadingWinsNewestFirst :
                              Get(NewestFirst[n], "titleFight", FALSE)})
        /\ \A n \in 1..3 : n <= Len(NewestFirst) =>
              profile.row[SlotKey(n, "Date")] = Get(NewestFirst[n], "gameDate", "")
        /\ \A j \in 1..Len(EventsGiven) :
              DateRank(profile.row["Event_1_Date"]) >= DateRank(DateGiven(j))

\* A history given oldest first, a loss before two wins, the newest a title
\* fight: the streak is 2 and Event_1 is the fight given last.
C22_Witness ==
    /\ A1Ran
    /\ [i \in 1..Len(EventsGiven) |-> <<DateGiven(i), ResultGiven(i), TitleGiven(i)>>]
          = <<<<"", "L", FALSE>>, <<"d1", "W", FALSE>>, <<"d2", "W", TRUE>>>>
    /\ profile.row["Fight Win Streak"] = 2
    /\ profile.row["Title Defenses"] = 1
    /\ profile.row["Event_1_Date"] = "d2"

GivenAthlete == Get(json_data, "athlete", EmptyDict)

GivenStatistics == Get(Get(GivenAthlete, "statsSummary", EmptyDict), "statistics", <<>>)

\* No statistic of the tree is named name.
NoStatistic(name) ==
    \A i \in 1..Len(GivenStatistics) : Get(GivenStatistics[i], "name", "") # name

\* The tree is rooted at athlete and differs from a complete one by absent
\* sub-keys only: no statistic has a non-numeric win count.
AthleteWithAbsences ==
    /\ "athlete" \in DOMAIN json_data
    /\ \A i \in 1..Len(GivenStatistics) :
          LET value == Get(GivenStatistics[i], "displayValue", EmptyString)
          IN  value = EmptyString \/ ParseInt(value[1]) # ValueError

A1Fields ==
    {"Name", "Division Title", "Division Record", "Wins by Knockout",
     "Wins by Submission", "First Round Finishes", "Wins by Decision",
     "Striking accuracy", "Win by Method - KO/TKO", "Win by Method - DEC",
     "Win by Method - SUB", "Status", "Fighting style", "Trains at",
     "Fight Win Streak", "Title Defenses", "Former Champion"}
    \cup {SlotKey(n, f) : n \in 1..3, f \in SlotFields}

Lacks(d, key, sub) == sub \notin DOMAIN Get(d, key, EmptyDict)

\* The athlete mapper completes and emits every field, '' for each missing
\* text (the record field apart) and 0 for each missing count.
A1Defaults ==
    /\ profile.outcome = "ok"
    /\ DOMAIN profile.row = A1Fields
    /\ Lacks(GivenAthlete, "weightClass", "text") => profile.row["Division Title"] = ""
    /\ Lacks(GivenAthlete, "stance", "text") => profile.row["Fighting style"] = ""
    /\ Lacks(GivenAthlete, "team", "name") => profile.row["Trains at"] = ""
    /\ NoStatistic("tkos-tkoLosses") => profile.row["Wins by Knockout"] = 0
    /\ NoStatistic("submissions-submissionLosses") => profile.row["Wins by Submission"] = 0
    /\ NoStatistic("wins-losses-draws") => profile.row["Wins by Decision"] = 0
    /\ \A j \in 1..Len(EventsGiven) :
          PlaceOf(j) <= 3 =>
              /\ "name" \notin DOMAIN EventsGiven[j] =>
                    profile.row[SlotKey(PlaceOf(j), "Headline")] = ""
              /\ Lacks(EventsGiven[j], "status", "period") =>
                    profile.row[SlotKey(PlaceOf(j), "Round")] = ""
              /\ Lacks(EventsGiven[j], "status", "displayClock") =>
                    profile.row[SlotKey(PlaceOf(j), "Time")] = ""
              /\ Lacks(Get(EventsGiven[j], "status", EmptyDict), "result", "displayName") =>
                    profile.row[SlotKey(PlaceOf(j), "Method")] = ""
    /\ (\A j \in 1..Len(EventsGiven) :
            PlaceOf(j) = 1 => "gameResult" \notin DOMAIN EventsGiven[j]) =>
          profile.row["Fight Win Streak"] = 0

GivenPlyrHdr == Get(json_data, "plyrHdr", EmptyDict)

GivenVals == Get(Get(GivenPlyrHdr, "statsBlck", EmptyDict), "vals", <<>>)

NoVal(name) == \A i \in 1..Len(GivenVals) : Get(GivenVals[i], "name", "") # name

PlyrHdrFields ==
    {"Name", "Division Tr", "Division Rk", "Wins by Kn", "Wins by Su", "First Roun",
     "Wins by De", "Striking ac", "Status", "Place_ct", "Fighting_s", "Age",
     "Height", "Weight", "Reach", "Trains_at", "Former Champion"}

\* The same of the plyrHdr mapper on a tree with neither a nested plyrHdr.
PlyrHdrDefaults ==
    /\ profile.outcome = "ok"
    /\ DOMAIN profile.row = PlyrHdrFields
    /\ "plyrHdr" \notin DOMAIN GivenPlyrHdr =>
          /\ Lacks(GivenPlyrHdr, "ath", "wghtclss") => profile.row["Division Tr"] = ""
          /\ Lacks(GivenPlyrHdr, "ath", "stnc") => profile.row["Fighting_s"] = ""
          /\ Lacks(GivenPlyrHdr, "ath", "tm") => profile.row["Trains_at"] = ""
          /\ Lacks(GivenPlyrHdr, "ath", "dob") => profile.row["Age"] = ""
    /\ NoVal("Technical Knockout-Technical Knockout Losses") => profile.row["Wins by Kn"] = 0
    /\ NoVal("Submissions-Submission Losses") => profile.row["Wins by Su"] = 0
    /\ NoVal("Wins-Losses-Draws") =>
          profile.row["Wins by De"] = 0 /\ profile.row["Division Rk"] = EmptyString

\* C19 as stated: on a tree of a known shape with sub-keys absent the mapper
\* of that shape completes and emits every field, with the empty string for
\* each missing text field, the record included, and zero for each count.
C19_AbsentKeysDefaulted ==
    /\ (profile.by = "a1" /\ AthleteWithAbsences) =>
          /\ A1Defaults
          /\ NoStatistic("wins-losses-draws") => profile.row["Division Record"] = EmptyString
    /\ (profile.by = "plyrHdr" /\ "plyrHdr" \in DOMAIN json_data) => PlyrHdrDefaults

DivisionField == IF profile.by = "a1" THEN "Division Title" ELSE "Division Tr"

RecordField == IF profile.by = "a1" THEN "Division Record" ELSE "Division Rk"

\* C20: the mapper dispatches on the root key, so that one fighter's data
\* gives the same Name, division and record in the athlete shape and in the
\* plyrHdr shape, and a tree with neither root gives a defaulted record.
C20_DispatchOnRoot ==
    profile.by # "none" =>
        /\ \A d \in Divisions, r \in Records :
              json_data \in {AthleteShape(FighterName, d, r), PlyrHdrShape(FighterName, d, r)} =>
                  /\ profile.outcome = "ok"
                  /\ profile.row["Name"] = FighterName
                  /\ profile.row[DivisionField] = d
                  /\ profile.row[RecordField] = r
        /\ json_data \in RootlessTrees =>
              /\ profile.outcome = "ok"
              /\ profile.row[DivisionField] = ""

----------------------------------------------------------------------------
(* Properties of the batch runs *)

\* C16: no page's failure ends a batch: the run never stops with an
\* exception, and when it returns every fighter of the list was attempted.
C16_BatchSurvivesPageFailures ==
    /\ batch.state # "raised"
    /\ batch.state = "returned" => batch.i = Len(batch.fighters)

----------------------------------------------------------------------------
(* Properties of the store of fighter pages *)

Called == html_ret.caller # "none"

NamesGiven == {html_ret.new[i][1] : i \in 1..Len(html_ret.new)}

ContentGiven(name) ==
    html_ret.new[CHOOSE i \in 1..Len(html_ret.new) : html_ret.new[i][1] = name][2]

LastGivenAs(stem) ==
    CHOOSE i \in 1..Len(html_ret.new) :
        /\ SafeName(html_ret.new[i][1]) = stem
        /\ \A j \in 1..Len(html_ret.new) : SafeName(html_ret.new[j][1]) = stem => j <= i

SafeNamesGiven == {SafeName(name) : name \in NamesGiven}

C18_ReturnsCounts ==
    Called =>
        /\ html_ret.ret.kind = "pair"
        /\ html_ret.ret.new_count =
              Cardinality({n \in SafeNamesGiven : n \notin DOMAIN html_ret.before})
        /\ html_ret.ret.updated_count =
              Cardinality({n \in SafeNamesGiven \cap DOMAIN html_ret.before :
                              folder[n] # html_ret.before[n]})
        /\ ~html_ret.raised

----------------------------------------------------------------------------
(* Properties of the scraper's requests *)

\* C23: at most 25 requests are issued per minute: no interval of 60 seconds
\* holds more than 25 of the requests issued, and requests_this_minute
\* never exceeds 25.
C23_AtMost25PerMinute ==
    /\ scraper.requests_this_minute <= RequestsPerMinute
    /\ \A i, j \in 1..Len(scraper.issued) :
          (i <= j /\ scraper.issued[j] - scraper.issued[i] < Minute)
              => j - i + 1 <= RequestsPerMinute

Responded == request.state \in {"returned", "raised"}

\* C24: a _make_request call ends; it makes at most max_retries + 1
\* attempts, every attempt but the last having ended with a 403 or with a
\* request error that is no HTTP error; it raises on any other HTTP error
\* and when the budget is used up; the retry counter is the number of
\* retries made.
C24_RequestEnds ==
    /\ [](/\ request.attempts <= max_retries + 1
          /\ request.retries <= max_retries
          /\ \A i \in 1..(Len(request.after) - 1) :
                request.after[i] \in {"http_403", "request_error"}
          /\ request.state = "retrying" => request.retries = request.attempts
          /\ Responded => request.retries = request.attempts - 1
          /\ (Responded /\ request.after[request.attempts] # "ok")
                => request.state = "raised"
          /\ (request.attempts > 0 /\ request.after[request.attempts] = "http_404")
                => request.state = "raised"
          /\ (request.attempts = max_retries + 1) => Responded)
    /\ <>Responded
    /\ [][request'.retries \in {request.retries, request.retries + 1}]_vars

\* The budget used up: five retries made, the sixth attempt answered 403,
\* and the call has raised.
C24_Witness ==
    /\ request.state = "raised"
    /\ request.retries = max_retries /\ request.attempts = max_retries + 1
    /\ request.after[request.attempts] = "http_403"

----------------------------------------------------------------------------
(* Properties of the scraping runs *)

Last(seq) == seq[Len(seq)]

\* In turn k of the loop the search found a URL and the page request
\* returned a page.
Fetched(k) ==
    LET fetch == scrape.log[k].fetch
    IN  Last(fetch.search) = "ok" /\ fetch.player /\ Last(fetch.page) = "ok"

\* The scrape of turn k succeeded: the page was fetched and stored.
Scraped(k) == Fetched(k) /\ ~OpenRaises(scrape.fighter_names[k])

\* C25: scrape_fighters_batch makes exactly one entry per name, in the order
\* of the names: the fighter's data where the scrape succeeded, an entry
\* with an 'error' field where it failed; a failure does not end the loop,
\* and the progress callback is called once per name with the counts 1..n
\* in increasing order.
C25_OneEntryPerName ==
    /\ Len(scrape.results) = Len(scrape.log)
    /\ scrape.state = "returned" => Len(scrape.results) = Len(scrape.fighter_names)
    /\ \A k \in 1..Len(scrape.results) :
          /\ scrape.results[k]["name"] = scrape.fighter_names[k]
          /\ IF Scraped(k)
             THEN /\ "error" \notin DOMAIN scrape.results[k]
                  /\ scrape.results[k] = scrape.log[k].ret
             ELSE "error" \in DOMAIN scrape.results[k]
    /\ scrape.callbacks =
          [k \in 1..Len(scrape.log) |->
              <<k, Len(scrape.fighter_names), scrape.fighter_names[k]>>]

\* Two names, the first failing and the second scraped.
C25_Witness ==
    /\ scrape.state = "returned" /\ Len(scrape.fighter_names) = 2
    /\ ~Scraped(1) /\ "error" \in DOMAIN scrape.results[1]
    /\ Scraped(2) /\ scrape.results[2]["html_file"] = FileStem(scrape.fighter_names[2])

\* C26: when fetching a fighter fails (no URL found, or the page request
\* raises) get_fighter_stats returns no data and leaves the stored pages as
\* they were; a stored page changes only after a page request succeeded.
C26_FailedFetchKeepsPage ==
    \A k \in 1..Len(scrape.log) :
        LET turn == scrape.log[k]
        IN  /\ ~Fetched(k) => (turn.ret = None /\ turn.after = turn.before)
            /\ turn.after # turn.before => Fetched(k)

\* A stored page kept by a page request that raised, and a stored page
\* replaced after one that succeeded.
C26_Witness ==
    /\ Len(scrape.log) = 2
    /\ LET first == scrape.log[1]
           stem == FileStem(scrape.fighter_names[1])
       IN  /\ first.fetch.player /\ Last(first.fetch.search) = "ok"
           /\ Last(first.fetch.page) # "ok"
           /\ stem \in DOMAIN first.before /\ first.after[stem] = "old content"
    /\ LET second == scrape.log[2]
           stem == FileStem(scrape.fighter_names[2])
       IN  /\ Fetched(2) /\ stem \in DOMAIN second.before
           /\ second.before[stem] = "old content" /\ second.after[stem] = ResponseText

\* The names of the fighters scraped successfully, in the order of the list.
ScrapedNames ==
    LET ks == SelectSeq([k \in 1..Len(scrape.log) |-> k], LAMBDA k : Scraped(k))
    IN  [j \in 1..Len(ks) |-> scrape.fighter_names[ks[j]]]

IdentityField(f) == IF f = "profiles" THEN "Fighter Name" ELSE "Player"

\* C30: scrape_fighter_data makes, for every fighter scraped successfully,
\* exactly one clinch, one ground, one striking and one profile record whose
\* identity field is the fighter's name, and none for an entry with an
\* error.
C30_OneRecordPerScrapedFighter ==
    scrape.state = "returned" =>
        \A f \in Families :
            LET rows == scrape.records[f].rows
            IN  [j \in 1..Len(rows) |-> rows[j][IdentityField(f)]] = ScrapedNames

----------------------------------------------------------------------------
(* Properties of save_data and of the tables it saves *)

Saved == saved.state # "idle"

\* C27: save_data takes the backup before it overwrites a table file: what
\* the backup folder holds is the content the files had before the call,
\* and when the backup ran to its end it holds every table file that
\* existed; a backup that fails does not keep the tables from being saved,
\* and save_data does not raise.
C27_BackupBeforeOverwrite ==
    Saved =>
        /\ ~saved.raised
        /\ \A f \in DOMAIN saved.backup_folder : saved.backup_folder[f] = saved.before[f]
        /\ saved.copied = Len(SaveOrder) =>
              \A f \in Families :
                  saved.before[f].exists => f \in DOMAIN saved.backup_folder
        /\ saved.written = Len(SaveOrder) =>
              \A f \in Families :
                  ~IsEmpty(saved.tables[LoadAttr(f)])
                      => disk[f] = ToCsv(saved.tables[LoadAttr(f)])

\* A table file overwritten with another content, the backup holding the
\* content it had.
C27_Witness ==
    /\ Saved /\ saved.copied = Len(SaveOrder)
    /\ \E f \in Families :
          /\ saved.before[f].exists /\ disk[f] # saved.before[f]
          /\ saved.backup_folder[f] = saved.before[f]

\* pd.concat and drop_duplicates raise inside _upsert_data: neither table is
\* empty and a key column is in neither.
UpsertRaises(existing_df, new_df, data_type) ==
    /\ ~IsEmpty(new_df) /\ ~IsEmpty(existing_df)
    /\ KeyErrorIn(Concat(existing_df, new_df), CompositeKey(data_type))

\* C28: when an error occurs inside the upsert the call does not raise, it
\* returns the existing table, and the in-memory tables are as they were
\* before the call.
C28_UpsertErrorKeepsTable ==
    [][(op'.name = "upsert" /\ nops' = nops + 1
        /\ UpsertRaises(op'.existing, op'.new, op'.f))
          => (ret' = op'.existing /\ mem' = mem)]_vars

\* An upsert of rows without 'Opponent' into a table without 'Opponent'.
C28_Witness ==
    /\ op.name = "upsert" /\ UpsertRaises(op.existing, op.new, op.f)
    /\ "Opponent" \notin op.existing.cols \cup op.new.cols
    /\ ret = op.existing /\ mem[UpsertAttr(op.f)] = op.existing

\* C29: for each family the table save_data writes and get_data_summary
\* counts is the table the last upsert of the family produced, and the
\* table the upsert merged into is the one loaded from the family's file at
\* start-up: no merge result is left unsaved.
C29_SavedIsUpserted ==
    (Saved /\ op.name = "upsert" /\ saved.written = Len(SaveOrder)) =>
        /\ op.existing \in {r.df : r \in ReadCsv(saved.before[op.f])}
        /\ ~IsEmpty(ret) => disk[op.f] = ToCsv(ret)
        /\ saved.state = "summarised" => saved.summary[op.f] = Len(ret.rows)

====
